---- MODULE Spec2Model ----
(***************************************************************************)
(* Parking_Calc (src/parking_calc.py): a Streamlit script that is run from *)
(* top to bottom on every user interaction (a "pass").  The model has the  *)
(* session state and the sidebar widgets as variables, one action per user *)
(* interaction (each a whole pass of the script), and the packing of one   *)
(* pass both as a step machine (PackSpec: one step per scanned candidate)  *)
(* and as the function that runs that machine to its end (RunPacking),     *)
(* which is what a pass of the session (Spec) calls.                       *)
(*                                                                         *)
(* Numbers.  Lengths are integers in units of 1/8 m (M(2) is 2 m).  A      *)
(* coordinate is an integer number of model degrees; lat_to_m and          *)
(* LonToM(..) are the code's metres-per-degree factors in these units, so  *)
(* the code's  space_w / lon_to_m  is  space_w \div LonToM(..)  and is     *)
(* exact: every length is a multiple of 8 and the factors are 1 or 2, so   *)
(* every dimension in degrees is a multiple of 4 and the halves the code   *)
(* takes (centres, half aisles) are integers too.  Polygon vertices are    *)
(* multiples of 4.  Centroids are kept multiplied by 4 (the sum of the     *)
(* four corners) and compared with polygons multiplied by 4.  The unit     *)
(* conversion (UnitSpec) works on floats of 53 bits, rounded as Python     *)
(* rounds them.                                                            *)
(***************************************************************************)
EXTENDS Integers, Sequences, FiniteSets, TLC

\* ------------------------------------------------------------------ bounds
\* Rectangular lots have sides of 0..MaxSide cells of 24 model degrees.
MaxSide == 2
\* A parking structure has 1..MaxLevels levels.
MaxLevels == 1
\* The estimator is applied to lots of 0..MaxEstimatorSide cells of 4 m a
\* side; it and the 3D view run under structures of 1..MaxStructureLevels
\* levels.
MaxEstimatorSide == 3
MaxStructureLevels == 2

\* --------------------------------------------------------------- constants
\* target_space_count of optimized mode: "no limit".
NoLimit == 999999

M(x) == x * 8

Abs(x) == IF x < 0 THEN 0 - x ELSE x

Min2(a, b) == IF a < b THEN a ELSE b

Max2(a, b) == IF a > b THEN a ELSE b

\* ---------------------------------------------------------------- geometry
\* A point is <<x, y>> = (lon, lat); a ring is a sequence of points whose last
\* point repeats the first.
Xs(ring) == {ring[i][1] : i \in 1..Len(ring)}

Ys(ring) == {ring[i][2] : i \in 1..Len(ring)}

SetMin(S) == CHOOSE m \in S : \A n \in S : m <= n

SetMax(S) == CHOOSE m \in S : \A n \in S : m >= n

\* Polygon.bounds: (minx, miny, maxx, maxy).
Bounds(ring) == <<SetMin(Xs(ring)), SetMin(Ys(ring)), SetMax(Xs(ring)), SetMax(Ys(ring))>>

\* Four times the centroid of a space ring (rectangle or parallelogram): the
\* centroid of either is the mean of its four corners.
Centroid4(ring) == <<ring[1][1] + ring[2][1] + ring[3][1] + ring[4][1], ring[1][2] + ring[2][2] + ring[3][2] + ring[4][2]>>

Cross(a, b, p) == (b[1] - a[1]) * (p[2] - a[2]) - (b[2] - a[2]) * (p[1] - a[1])

\* p4 (a point multiplied by 4) lies on the edge a-b of the polygon.
OnEdge4(a, b, p4) ==
    LET a4 == <<4 * a[1], 4 * a[2]>>
        b4 == <<4 * b[1], 4 * b[2]>>
    IN  /\ Cross(a4, b4, p4) = 0
        /\ Min2(a4[1], b4[1]) <= p4[1] /\ p4[1] <= Max2(a4[1], b4[1])
        /\ Min2(a4[2], b4[2]) <= p4[2] /\ p4[2] <= Max2(a4[2], b4[2])

\* The horizontal ray from p4 to the right crosses the edge a-b.
RayCrosses4(a, b, p4) ==
    LET ax == 4 * a[1]
        ay == 4 * a[2]
        bx == 4 * b[1]
        by == 4 * b[2]
    IN  /\ (ay > p4[2]) # (by > p4[2])
        /\ IF by > ay
           THEN (p4[1] - ax) * (by - ay) < (p4[2] - ay) * (bx - ax)
           ELSE (p4[1] - ax) * (by - ay) > (p4[2] - ay) * (bx - ax)

\* poly_latlon.contains(point): the point is in the interior of the polygon
\* (a point on the boundary is not contained).
Contains4(poly, p4) ==
    LET E == 1..(Len(poly) - 1)
    IN  /\ \A i \in E : ~OnEdge4(poly[i], poly[i + 1], p4)
        /\ Cardinality({i \in E : RayCrosses4(poly[i], poly[i + 1], p4)}) % 2 = 1

\* Twice the signed area of a ring (shoelace formula, Polygon.area).
RECURSIVE Shoelace2(_, _)
Shoelace2(ring, i) ==
    IF i >= Len(ring) THEN 0
    ELSE ring[i][1] * ring[i + 1][2] - ring[i + 1][1] * ring[i][2] + Shoelace2(ring, i + 1)

\* The axis-aligned extent of a ring, as a record.
Box(ring) ==
    LET b == Bounds(ring)
    IN  [left |-> b[1], bottom |-> b[2], right |-> b[3], top |-> b[4]]

\* a.intersects(b) for two axis-aligned rectangles: they share a point.
BoxesIntersect(a, b) ==
    /\ a.left <= b.right /\ b.left <= a.right
    /\ a.bottom <= b.top /\ b.bottom <= a.top

\* The interiors of two axis-aligned rectangles overlap.
InteriorsOverlap(a, b) ==
    /\ Max2(a.left, b.left) < Min2(a.right, b.right)
    /\ Max2(a.bottom, b.bottom) < Min2(a.top, b.top)

\* zone.contains(point) for an axis-aligned rectangle, the point times 4.
BoxContains4(z, p4) ==
    /\ 4 * z.left < p4[1] /\ p4[1] < 4 * z.right
    /\ 4 * z.bottom < p4[2] /\ p4[2] < 4 * z.top

\* sum(values) / len(values) of a list of coordinates, as the fraction
\* <<numerator, denominator>> in lowest terms.
RECURSIVE GCD(_, _)
GCD(a, b) == IF b = 0 THEN a ELSE GCD(b, a % b)

RECURSIVE SumSeq(_, _)
SumSeq(values, i) == IF i > Len(values) THEN 0 ELSE values[i] + SumSeq(values, i + 1)

Mean(values) ==
    LET total == SumSeq(values, 1)
        g == GCD(Abs(total), Len(values))
    IN  <<total \div g, Len(values) \div g>>

\* polygon_center = [center_lat, center_lon]: the means of the latitudes and
\* of the longitudes of coords, the closing point of the ring included.
PolygonCenter(coords) ==
    <<Mean([i \in 1..Len(coords) |-> coords[i][2]]), Mean([i \in 1..Len(coords) |-> coords[i][1]])>>

\* ------------------------------------------------------- packing: set-up
\* The strings of the sidebar's selectboxes.
ParkingTypes == {"Standard Perpendicular (90 deg)", "Angled (45 deg)", "Parallel", "Compact"}

LayoutOrientations == {"Auto (Best Fit)", "Row-Based (Horizontal)", "Column-Based (Vertical)", "Perimeter + Center (High Efficiency)"}

\* The latitude scale in metres per degree (110540 in the code), in the model's
\* units; see the note on numbers above.
lat_to_m == 2

\* High latitudes start here: cos(radians(center_lat)) is 1/2 rather than 1.
HighLatitude == 4000

\* lon_to_m = 111320 * cos(radians(center_lat)): the cosine is tabulated for
\* the two latitude bands of the model, low (cos ~ 1, where the code's factor
\* is within 1% of lat_to_m) and high (cos = 1/2); center_lat is
\* (bounds[1] + bounds[3]) / 2.
LonToM(bounds) == IF bounds[2] + bounds[4] < 2 * HighLatitude THEN lat_to_m ELSE lat_to_m \div 2

\* np.sin / np.cos of 45 degrees applied to a length: 0.7071... as 7/10.
Sin45(v) == (v * 7) \div 10

Cos45(v) == (v * 7) \div 10

\* "Perpendicular" in p_type or "Compact" in p_type / "Angled" in p_type /
\* "Parallel" in p_type: the branch a parking type takes.
TypeBranch(p_type) ==
    CASE p_type \in {"Standard Perpendicular (90 deg)", "Compact"} -> "perpendicular"
      [] p_type = "Angled (45 deg)" -> "angled"
      [] p_type = "Parallel" -> "parallel"
      [] OTHER -> "none"

\* aspect_ratio = poly_width / poly_height if poly_height > 0 else 1, compared
\* with 1.2 and 0.8 without dividing.
AspectAbove12(bounds) ==
    LET poly_width == bounds[3] - bounds[1]
        poly_height == bounds[4] - bounds[2]
    IN  IF poly_height > 0 THEN 5 * poly_width > 6 * poly_height ELSE FALSE

AspectBelow08(bounds) ==
    LET poly_width == bounds[3] - bounds[1]
        poly_height == bounds[4] - bounds[2]
    IN  IF poly_height > 0 THEN 5 * poly_width < 4 * poly_height ELSE FALSE

\* The orientation dispatch: the flags use_rows, use_columns and
\* use_perimeter_center of a pass.
Dispatch(layout_orientation, bounds) ==
    CASE layout_orientation = "Auto (Best Fit)" ->
            IF AspectAbove12(bounds)
            THEN [use_rows |-> TRUE, use_columns |-> FALSE, use_perimeter_center |-> FALSE]
            ELSE IF AspectBelow08(bounds)
                 THEN [use_rows |-> FALSE, use_columns |-> TRUE, use_perimeter_center |-> FALSE]
                 ELSE [use_rows |-> TRUE, use_columns |-> FALSE, use_perimeter_center |-> FALSE]
      [] layout_orientation = "Row-Based (Horizontal)" ->
            [use_rows |-> TRUE, use_columns |-> FALSE, use_perimeter_center |-> FALSE]
      [] layout_orientation = "Column-Based (Vertical)" ->
            [use_rows |-> FALSE, use_columns |-> TRUE, use_perimeter_center |-> FALSE]
      [] layout_orientation = "Perimeter + Center (High Efficiency)" ->
            [use_rows |-> FALSE, use_columns |-> FALSE, use_perimeter_center |-> TRUE]
      [] OTHER ->
            [use_rows |-> TRUE, use_columns |-> FALSE, use_perimeter_center |-> FALSE]

\* create_space_coords(x, y, width_deg, length_deg, orientation, direction,
\* angle_rad); angled is angle_rad # 0.
create_space_coords(x, y, width_deg, length_deg, orientation, direction, angled) ==
    IF orientation = "horizontal"
    THEN IF ~angled
         THEN IF direction = 1
              THEN <<<<x, y>>, <<x + width_deg, y>>, <<x + width_deg, y + length_deg>>, <<x, y + length_deg>>, <<x, y>>>>
              ELSE <<<<x, y>>, <<x + width_deg, y>>, <<x + width_deg, y - length_deg>>, <<x, y - length_deg>>, <<x, y>>>>
         ELSE LET offset == Sin45(length_deg)
              IN  IF direction = 1
                  THEN <<<<x, y>>, <<x + width_deg, y>>, <<x + width_deg + offset, y + Cos45(length_deg)>>, <<x + offset, y + Cos45(length_deg)>>, <<x, y>>>>
                  ELSE <<<<x, y>>, <<x + width_deg, y>>, <<x + width_deg - offset, y - Cos45(length_deg)>>, <<x - offset, y - Cos45(length_deg)>>, <<x, y>>>>
    ELSE IF ~angled
         THEN IF direction = 1
              THEN <<<<x, y>>, <<x + length_deg, y>>, <<x + length_deg, y + width_deg>>, <<x, y + width_deg>>, <<x, y>>>>
              ELSE <<<<x, y>>, <<x - length_deg, y>>, <<x - length_deg, y + width_deg>>, <<x, y + width_deg>>, <<x, y>>>>
         ELSE LET offset == Sin45(length_deg)
              IN  IF direction = 1
                  THEN <<<<x, y>>, <<x + Cos45(length_deg), y>>, <<x + Cos45(length_deg), y + width_deg + offset>>, <<x, y + width_deg + offset>>, <<x, y>>>>
                  ELSE <<<<x, y>>, <<x - Cos45(length_deg), y>>, <<x - Cos45(length_deg), y + width_deg - offset>>, <<x, y + width_deg - offset>>, <<x, y>>>>

\* What a packing pass works with is a record "in": the layout snapshot
\* (polygon, space_w, space_l, aisle_w, p_type), the cap target_space_count,
\* the sidebar's layout_orientation, corner_island_size and
\* center_aisle_count, and what the pass derives from them once (bounds,
\* flags, the dimensions in degrees, corner zones and center bounds; see
\* PassInputs).
InBounds(in) == in.bounds

InFlags(in) == in.flags

\* space_w / lon_to_m, space_l / lat_to_m, aisle_w / lat_to_m, aisle_w / lon_to_m.
SpaceWDeg(in) == in.space_w_deg

SpaceLDeg(in) == in.space_l_deg

AisleWDeg(in) == in.aisle_w_deg

AisleWDegLon(in) == in.aisle_w_deg_lon

\* space_direction / angle_direction = 1 if row_num % 2 == 0 else -1.
Direction(row_num) == IF row_num % 2 = 0 THEN 1 ELSE -1

\* A variant that tests the first corner of the space, not its centroid.
CornerInside(in, space_coords) == Contains4(in.polygon, <<4 * space_coords[1][1], 4 * space_coords[1][2]>>)

\* The acceptance test of the row, column, angled and parallel layouts:
\* poly_latlon.contains(space_poly.centroid).
CentroidInside(in, space_coords) == Contains4(in.polygon, Centroid4(space_coords))

\* parking_spaces.append(display_coords) when the candidate is accepted.
AppendIf(accepted, parking_spaces, space_coords) ==
    IF accepted THEN Append(parking_spaces, space_coords) ELSE parking_spaces

\* if len(parking_spaces) >= target_space_count: break
CapReached(in, parking_spaces) == Len(parking_spaces) >= in.target_space_count

\* ------------------------------------------- packing: the scan as a machine
\* The position of a packing pass is a record s: pc (the loop it is in),
\* current_x, current_y, row_num (row_num, col_num or row_idx of the loop),
\* parking_spaces (the list so far) and l_defined (space_l_deg has been
\* assigned: the row and column layouts assign it inside the inner loop only,
\* and the script's names are fresh on every pass).
PackStart(in) ==
    [pc |-> "start", current_x |-> 0, current_y |-> 0, row_num |-> 0, parking_spaces |-> <<>>, l_defined |-> FALSE]

Angled(in) == TypeBranch(in.p_type) = "angled"

\* if use_columns: current_x = bounds[0]; col_num = 0; while ...
EnterColumns(in, s) ==
    IF InFlags(in).use_columns
    THEN [s EXCEPT !.pc = "cols", !.current_x = InBounds(in)[1], !.row_num = 0]
    ELSE [s EXCEPT !.pc = "done"]

\* if use_rows: current_y = bounds[1]; row_num = 0; while ...
EnterRows(in, s) ==
    IF InFlags(in).use_rows
    THEN [s EXCEPT !.pc = "rows", !.current_y = InBounds(in)[2], !.row_num = 0]
    ELSE EnterColumns(in, s)

\* The branch taken by parking type first: the parallel type goes to its edge
\* layout whatever the orientation.
StartStepTypeFirst(in, s) ==
    CASE TypeBranch(in.p_type) = "parallel" -> [s EXCEPT !.pc = "par_h", !.current_x = InBounds(in)[1]]
      [] InFlags(in).use_perimeter_center -> [s EXCEPT !.pc = "top", !.current_x = InBounds(in)[1], !.l_defined = TRUE]
      [] TypeBranch(in.p_type) \in {"perpendicular", "angled"} -> EnterRows(in, s)
      [] OTHER -> [s EXCEPT !.pc = "done"]

\* The branch of the pass: perimeter + center first, then by parking type.
StartStep(in, s) ==
    IF InFlags(in).use_perimeter_center
    THEN [s EXCEPT !.pc = "top", !.current_x = InBounds(in)[1], !.l_defined = TRUE]
    ELSE CASE TypeBranch(in.p_type) \in {"perpendicular", "angled"} -> EnterRows(in, s)
           [] TypeBranch(in.p_type) = "parallel" -> [s EXCEPT !.pc = "par_h", !.current_x = InBounds(in)[1]]
           [] OTHER -> [s EXCEPT !.pc = "done"]

\* The end of one row band: aisle_w_deg = aisle_w / lat_to_m;
\* current_y += (space_l_deg [* cos] if direction == 1 else 0) + aisle_w_deg;
\* row_num += 1.  Reading space_l_deg before any inner iteration assigned it
\* raises NameError.
\* A band end that starts the scan of the rows again.
EndRowRestart(in, s) ==
    [s EXCEPT !.pc = "rows", !.current_y = InBounds(in)[2], !.row_num = 0, !.parking_spaces = <<>>]

EndRow(in, s) ==
    IF Direction(s.row_num) = 1 /\ ~s.l_defined
    THEN [s EXCEPT !.pc = "raised"]
    ELSE LET depth == IF Angled(in) THEN Cos45(SpaceLDeg(in)) ELSE SpaceLDeg(in)
         IN  [s EXCEPT !.pc = "rows",
                       !.current_y = @ + (IF Direction(s.row_num) = 1 THEN depth ELSE 0) + AisleWDeg(in),
                       !.row_num = @ + 1]

\* A variant that does not move current_x back to the left edge.
RowOuterStepNoReset(in, s) ==
    IF s.current_y < InBounds(in)[4] THEN [s EXCEPT !.pc = "rows_in"] ELSE EnterColumns(in, s)

\* while current_y < bounds[3]: current_x = bounds[0]; ...
RowOuterStep(in, s) ==
    IF s.current_y < InBounds(in)[4]
    THEN [s EXCEPT !.pc = "rows_in", !.current_x = InBounds(in)[1]]
    ELSE EnterColumns(in, s)

\* The candidate of the row band at (current_x, current_y).
RowCandidate(in, s) ==
    create_space_coords(s.current_x, s.current_y, SpaceWDeg(in), SpaceLDeg(in), "horizontal", Direction(s.row_num), Angled(in))

\* One iteration of the inner loop of a row band (or its exit).
RowInnerStep(in, s) ==
    IF s.current_x < InBounds(in)[3]
    THEN LET spaces == AppendIf(CentroidInside(in, RowCandidate(in, s)), s.parking_spaces, RowCandidate(in, s))
             t == [s EXCEPT !.parking_spaces = spaces, !.current_x = @ + SpaceWDeg(in), !.l_defined = TRUE]
         IN  IF CapReached(in, spaces) THEN EndRow(in, t) ELSE t
    ELSE EndRow(in, s)

\* The end of one column band: aisle_w_deg = aisle_w / lon_to_m;
\* current_x += (space_l_deg [* cos] if direction == 1 else 0) + aisle_w_deg;
\* col_num += 1.
EndColumn(in, s) ==
    IF Direction(s.row_num) = 1 /\ ~s.l_defined
    THEN [s EXCEPT !.pc = "raised"]
    ELSE LET depth == IF Angled(in) THEN Cos45(SpaceLDeg(in)) ELSE SpaceLDeg(in)
         IN  [s EXCEPT !.pc = "cols",
                       !.current_x = @ + (IF Direction(s.row_num) = 1 THEN depth ELSE 0) + AisleWDegLon(in),
                       !.row_num = @ + 1]

\* while current_x < bounds[2]: current_y = bounds[1]; ...
ColumnOuterStep(in, s) ==
    IF s.current_x < InBounds(in)[3]
    THEN [s EXCEPT !.pc = "cols_in", !.current_y = InBounds(in)[2]]
    ELSE [s EXCEPT !.pc = "done"]

ColumnCandidate(in, s) ==
    create_space_coords(s.current_x, s.current_y, SpaceWDeg(in), SpaceLDeg(in), "vertical", Direction(s.row_num), Angled(in))

\* One iteration of the inner loop of a column band (or its exit).
ColumnInnerStep(in, s) ==
    IF s.current_y < InBounds(in)[4]
    THEN LET spaces == AppendIf(CentroidInside(in, ColumnCandidate(in, s)), s.parking_spaces, ColumnCandidate(in, s))
             t == [s EXCEPT !.parking_spaces = spaces, !.current_y = @ + SpaceWDeg(in), !.l_defined = TRUE]
         IN  IF CapReached(in, spaces) THEN EndColumn(in, t) ELSE t
    ELSE EndColumn(in, s)

\* A rectangle ring from its lower-left corner, drawn as the parallel and
\* perimeter layouts write it (five points, closed).
RectRing(x, y, dx, dy) == <<<<x, y>>, <<x + dx, y>>, <<x + dx, y + dy>>, <<x, y + dy>>, <<x, y>>>>

\* The same rectangle written from its upper-left corner downwards (the top
\* strips).
RectRingDown(x, y, dx, dy) == <<<<x, y + dy>>, <<x + dx, y + dy>>, <<x + dx, y>>, <<x, y>>, <<x, y + dy>>>>

\* Parallel layout, bottom and top edges: one iteration of
\* while current_x < bounds[2] (two candidates), or its exit.
ParallelHStep(in, s) ==
    LET b == InBounds(in)
    IN  IF s.current_x < b[3]
        THEN LET bottom_edge == RectRing(s.current_x, b[2], SpaceLDeg(in), SpaceWDeg(in))
                 top_edge == RectRing(s.current_x, b[4] - SpaceWDeg(in), SpaceLDeg(in), SpaceWDeg(in))
                 first == AppendIf(CentroidInside(in, bottom_edge), s.parking_spaces, bottom_edge)
                 spaces == AppendIf(CentroidInside(in, top_edge), first, top_edge)
             IN  [s EXCEPT !.parking_spaces = spaces,
                           !.current_x = @ + SpaceLDeg(in),
                           !.current_y = IF CapReached(in, spaces) THEN b[2] ELSE @,
                           !.pc = IF CapReached(in, spaces) THEN "par_v" ELSE "par_h"]
        ELSE [s EXCEPT !.pc = "par_v", !.current_y = b[2]]

\* Parallel layout, left and right edges: one iteration of
\* while current_y < bounds[3] (two candidates), or its exit.
ParallelVStep(in, s) ==
    LET b == InBounds(in)
    IN  IF s.current_y < b[4]
        THEN LET left_edge == RectRing(b[1], s.current_y, SpaceWDeg(in), SpaceLDeg(in))
                 right_edge == RectRing(b[3] - SpaceWDeg(in), s.current_y, SpaceWDeg(in), SpaceLDeg(in))
                 first == AppendIf(CentroidInside(in, left_edge), s.parking_spaces, left_edge)
                 spaces == AppendIf(CentroidInside(in, right_edge), first, right_edge)
             IN  [s EXCEPT !.parking_spaces = spaces,
                           !.current_y = @ + SpaceLDeg(in),
                           !.pc = IF CapReached(in, spaces) THEN "done" ELSE "par_v"]
        ELSE [s EXCEPT !.pc = "done"]

\* ------------------------------------------------ packing: perimeter + center
\* corner_exclusion_zones: top-left, top-right, bottom-left, bottom-right,
\* from the bounds and corner_size_deg_lon (cx) / corner_size_deg_lat (cy).
CornerZones(b, cx, cy) ==
        <<[left |-> b[1], right |-> b[1] + cx, bottom |-> b[4] - cy, top |-> b[4]],
          [left |-> b[3] - cx, right |-> b[3], bottom |-> b[4] - cy, top |-> b[4]],
          [left |-> b[1], right |-> b[1] + cx, bottom |-> b[2], top |-> b[2] + cy],
          [left |-> b[3] - cx, right |-> b[3], bottom |-> b[2], top |-> b[2] + cy]>>

corner_exclusion_zones(in) == in.corner_exclusion_zones

\* A variant that rejects a space only when its centroid is in a corner zone.
centroid_in_corners(in, space_coords) ==
    \E k \in 1..4 : BoxContains4(corner_exclusion_zones(in)[k], Centroid4(space_coords))

\* conflicts_with_corners(space_poly)
conflicts_with_corners(in, space_coords) ==
    \E k \in 1..4 :
        \/ BoxesIntersect(Box(space_coords), corner_exclusion_zones(in)[k])
        \/ BoxContains4(corner_exclusion_zones(in)[k], Centroid4(space_coords))

\* The acceptance test of the perimeter + center layout.
PerimeterAccepts(in, space_coords) ==
    CentroidInside(in, space_coords) /\ ~conflicts_with_corners(in, space_coords)

\* circulation_clearance_lat / circulation_clearance_lon and center_bounds.
CenterBounds(b, space_l_deg, aisle_w_deg, aisle_w_deg_lon) ==
    LET circulation_clearance_lat == space_l_deg + (aisle_w_deg * 2)
        circulation_clearance_lon == space_l_deg + (aisle_w_deg_lon * 2)
    IN  [left |-> b[1] + circulation_clearance_lon,
         right |-> b[3] - circulation_clearance_lon,
         bottom |-> b[2] + circulation_clearance_lat,
         top |-> b[4] - circulation_clearance_lat]

center_bounds(in) == in.center_bounds

\* row_height and total_height_needed of the center rows.
RowHeight(in) == (2 * SpaceLDeg(in)) + AisleWDeg(in)

TotalHeightNeeded(in) == (in.center_aisle_count * RowHeight(in)) + ((in.center_aisle_count - 1) * AisleWDeg(in))

\* The test of the center rows with the height of one row, whatever the
\* number of rows.
CenterFitsOneRow(in) ==
    /\ center_bounds(in).top - center_bounds(in).bottom > RowHeight(in)
    /\ center_bounds(in).right - center_bounds(in).left > SpaceWDeg(in)

\* if center_height > total_height_needed and center_width > space_w_deg
CenterFits(in) ==
    /\ center_bounds(in).top - center_bounds(in).bottom > TotalHeightNeeded(in)
    /\ center_bounds(in).right - center_bounds(in).left > SpaceWDeg(in)

\* row_positions[row_idx]: the y of the middle of the aisle of a center row.
RowPosition(in, row_idx) ==
    LET center_y == (center_bounds(in).bottom + center_bounds(in).top) \div 2
        row_spacing == RowHeight(in) + AisleWDeg(in)
        total_group_height == (in.center_aisle_count - 1) * row_spacing
        first_row_y == center_y - (total_group_height \div 2)
    IN  IF in.center_aisle_count = 1 THEN center_y ELSE first_row_y + (row_idx * row_spacing)

\* The candidate of a perimeter strip or center row at the scan position.
StripCandidate(in, s) ==
    LET b == InBounds(in)
    IN  CASE s.pc = "top" -> RectRingDown(s.current_x, b[4] - SpaceLDeg(in) - AisleWDeg(in), SpaceWDeg(in), SpaceLDeg(in))
          [] s.pc = "bottom" -> RectRing(s.current_x, b[2] + AisleWDeg(in), SpaceWDeg(in), SpaceLDeg(in))
          [] s.pc = "left" -> RectRing(b[1] + AisleWDegLon(in), s.current_y, SpaceLDeg(in), SpaceWDeg(in))
          [] s.pc = "right" -> RectRing(b[3] - SpaceLDeg(in) - AisleWDegLon(in), s.current_y, SpaceLDeg(in), SpaceWDeg(in))
          [] s.pc = "center_top" -> RectRingDown(s.current_x, RowPosition(in, s.row_num) + (AisleWDeg(in) \div 2), SpaceWDeg(in), SpaceLDeg(in))
          [] OTHER -> create_space_coords(s.current_x, RowPosition(in, s.row_num) - (AisleWDeg(in) \div 2), SpaceWDeg(in), SpaceLDeg(in), "horizontal", -1, FALSE)

\* Where the scan goes when the loop of a strip or center row ends (its
\* condition fails or the cap breaks it).
AfterStrip(in, s) ==
    LET b == InBounds(in)
    IN  CASE s.pc = "top" -> [s EXCEPT !.pc = "bottom", !.current_x = b[1]]
          [] s.pc = "bottom" -> [s EXCEPT !.pc = "left", !.current_y = b[2]]
          [] s.pc = "left" -> [s EXCEPT !.pc = "right", !.current_y = b[2]]
          [] s.pc = "right" ->
                IF CenterFits(in)
                THEN [s EXCEPT !.pc = "center_top", !.row_num = 0, !.current_x = center_bounds(in).left]
                ELSE [s EXCEPT !.pc = "done"]
          [] s.pc = "center_top" -> [s EXCEPT !.pc = "center_bottom", !.current_x = center_bounds(in).left]
          [] OTHER ->
                IF s.row_num + 1 < in.center_aisle_count
                THEN [s EXCEPT !.pc = "center_top", !.row_num = @ + 1, !.current_x = center_bounds(in).left]
                ELSE [s EXCEPT !.pc = "done"]

\* One iteration of a strip scanned along x (top, bottom, center rows):
\* while current_x < limit: candidate; current_x += space_w_deg; cap check.
StripXStep(in, s) ==
    LET limit == IF s.pc \in {"top", "bottom"} THEN InBounds(in)[3] ELSE center_bounds(in).right
    IN  IF s.current_x < limit
        THEN LET spaces == AppendIf(PerimeterAccepts(in, StripCandidate(in, s)), s.parking_spaces, StripCandidate(in, s))
                 t == [s EXCEPT !.parking_spaces = spaces, !.current_x = @ + SpaceWDeg(in)]
             IN  IF CapReached(in, spaces) THEN AfterStrip(in, t) ELSE t
        ELSE AfterStrip(in, s)

\* One iteration of a strip scanned along y (left, right):
\* while current_y < bounds[3]: candidate; current_y += space_w_deg; cap check.
StripYStep(in, s) ==
    IF s.current_y < InBounds(in)[4]
    THEN LET spaces == AppendIf(PerimeterAccepts(in, StripCandidate(in, s)), s.parking_spaces, StripCandidate(in, s))
             t == [s EXCEPT !.parking_spaces = spaces, !.current_y = @ + SpaceWDeg(in)]
         IN  IF CapReached(in, spaces) THEN AfterStrip(in, t) ELSE t
    ELSE AfterStrip(in, s)

\* One step of the packing pass from position s.
PackStep(in, s) ==
    CASE s.pc = "start" -> StartStep(in, s)
      [] s.pc = "rows" -> RowOuterStep(in, s)
      [] s.pc = "rows_in" -> RowInnerStep(in, s)
      [] s.pc = "cols" -> ColumnOuterStep(in, s)
      [] s.pc = "cols_in" -> ColumnInnerStep(in, s)
      [] s.pc = "par_h" -> ParallelHStep(in, s)
      [] s.pc = "par_v" -> ParallelVStep(in, s)
      [] s.pc \in {"top", "bottom", "center_top", "center_bottom"} -> StripXStep(in, s)
      [] s.pc \in {"left", "right"} -> StripYStep(in, s)
      [] OTHER -> s

\* The pass run to its end: the position with pc "done" or "raised".
RECURSIVE RunFrom(_, _)
RunFrom(in, s) == IF s.pc \in {"done", "raised"} THEN s ELSE RunFrom(in, PackStep(in, s))

RunPacking(in) == RunFrom(in, PackStart(in))

\* ------------------------------------------------------------------- state
\* session_state: st.session_state, the key-value store that outlives a pass.
\*   A key that is missing or None is -1 (counts), <<>> (polygon_coords) or
\*   NoParams (layout_params); has_parking_spaces_3d is
\*   'parking_spaces_3d' in st.session_state.
\* sidebar: the values of the sidebar widgets in the current pass.
\* scan: the position of the packing of the current pass (see PackStart).
\* pass_raised: the last pass ended in an uncaught exception.
\* view: what the 3D view of the last pass rendered (NoView if it did not).
\* page: the map the last pass rendered (its tiles, centre and zoom), the
\*   message of its address search, and the responses the network gave to
\*   the requests of the pass.  Only NetworkSpec follows it; it is NoPage in
\*   the specifications that leave the network and the basemap out.
VARIABLES session_state, sidebar, scan, pass_raised, view, page

vars == <<session_state, sidebar, scan, pass_raised, view, page>>

NoPage == [none |-> TRUE]

NoView == [rendered |-> FALSE, all_spaces_3d |-> <<>>, total_spaces_all_levels |-> 0]

NoneInt == 0 - 1

NoParams == [none |-> TRUE]

\* polygon_center = None
NoCenter == <<>>

\* ------------------------------------------------------------ input sets
\* Number inputs of "Space Settings" per parking type, metric, as
\* <<space_width, space_length, aisle_width>> within the widgets' ranges.
SpaceSettings(parking_type) ==
    CASE parking_type = "Standard Perpendicular (90 deg)" -> {<<M(2), M(5), M(6)>>, <<M(2), M(6), M(5)>>}
      [] parking_type = "Angled (45 deg)" -> {<<M(2), M(5), M(4)>>}
      [] parking_type = "Parallel" -> {<<M(3), M(6), M(3)>>}
      [] OTHER -> {<<M(2), M(4), M(5)>>}

\* Corner Island Size (3.0 to 15.0 m) and Center Parking Rows (1 to 3): the
\* widgets exist only when the orientation is perimeter + center; otherwise
\* the names are not defined in the pass (0 here, and never read).
CornerSettings(layout_orientation) ==
    IF layout_orientation = "Perimeter + Center (High Efficiency)"
    THEN {[include_corner_islands |-> f, corner_island_size |-> c, center_aisle_count |-> n] :
            f \in BOOLEAN, c \in {M(3), M(8), M(15)}, n \in 1..3}
    ELSE {[include_corner_islands |-> FALSE, corner_island_size |-> 0, center_aisle_count |-> 0]}

\* Calculation Method with its input: Area per Space (20 to 60 m2, in
\* 1/64 m2 here) or Efficiency Factor (0.50 to 0.95, in percent here).  The
\* input of the method not selected is not read (0 here).
EstimatorSettings ==
    {[calculation_method |-> "Area per Space (ITE Standard)", area_per_space |-> a, efficiency |-> 0] :
        a \in {M(30) * 8, M(60) * 8}}
    \cup {[calculation_method |-> "Efficiency Factor", area_per_space |-> 0, efficiency |-> 85]}

\* Structure Type and Number of Levels; a surface lot has num_levels = 1.
SurfaceLot == [structure_type |-> "Surface Lot (2D)", num_levels |-> 1]

StructureSettings ==
    {SurfaceLot} \cup {[structure_type |-> "Parking Structure (3D)", num_levels |-> n] : n \in 1..MaxLevels}

\* A rectangle drawn with the rectangle tool, as a closed ring.
RectLot(x, y, w, h) == <<<<x, y>>, <<x + w, y>>, <<x + w, y + h>>, <<x, y + h>>, <<x, y>>>>

\* Small lots: rectangles of 0..MaxSide cells a side (a side of 0 cells is a
\* degenerate lot), a right triangle, an L-shaped lot, a lot whose vertices
\* are collinear (zero area), a rectangle at a high latitude, and a lot of
\* 3 m by 3 m, smaller than any parking space.
SmallLots ==
    LET top == MaxSide * 24
    IN  {RectLot(40, 80, i * 24, j * 24) : i \in 0..MaxSide, j \in 0..MaxSide}
        \cup {<<<<40, 80>>, <<40 + top, 80>>, <<40, 80 + top>>, <<40, 80>>>>}
        \cup {<<<<40, 80>>, <<40 + top, 80>>, <<40 + top, 92>>, <<52, 92>>, <<52, 80 + top>>, <<40, 80 + top>>, <<40, 80>>>>}
        \cup {<<<<40, 80>>, <<52, 92>>, <<64, 104>>, <<40, 80>>>>}
        \cup {RectLot(40, HighLatitude, top, top)}
        \cup {RectLot(40, 80, 12, 12)}

\* Lots large enough for perimeter strips and center rows.
LargeLots == {RectLot(40, 80, 116, 164), RectLot(40, 80, 116, 244), RectLot(40, HighLatitude, 232, 164)}

\* --------------------------------------------------- the layout of a pass
\* The snapshot a layout button stores in layout_params; the Conservative
\* button adds target_spaces.
LayoutParams(polygon, space_width, space_length, aisle_width, parking_type, estimated_spaces, conservative) ==
    IF conservative
    THEN [polygon |-> polygon, space_width |-> space_width, space_length |-> space_length,
          aisle_width |-> aisle_width, parking_type |-> parking_type,
          estimated_spaces |-> estimated_spaces, target_spaces |-> estimated_spaces]
    ELSE [polygon |-> polygon, space_width |-> space_width, space_length |-> space_length,
          aisle_width |-> aisle_width, parking_type |-> parking_type,
          estimated_spaces |-> estimated_spaces]

\* target_space_count: params.get('target_spaces', 999999) in conservative
\* mode, 999999 otherwise.
TargetSpaceCount(ss) ==
    IF ss.show_conservative
    THEN IF "target_spaces" \in DOMAIN ss.layout_params THEN ss.layout_params.target_spaces ELSE NoLimit
    ELSE NoLimit

\* What the packing of a pass reads: params = st.session_state.layout_params,
\* the cap, and layout_orientation, corner_island_size and center_aisle_count
\* as the sidebar has them in this pass.
PackInputs(params, target_space_count, layout_orientation, corner_island_size, center_aisle_count) ==
    LET b == Bounds(params.polygon)
        lon_to_m == LonToM(b)
    IN  [polygon |-> params.polygon,
         space_w |-> params.space_width,
         space_l |-> params.space_length,
         aisle_w |-> params.aisle_width,
         p_type |-> params.parking_type,
         target_space_count |-> target_space_count,
         layout_orientation |-> layout_orientation,
         corner_island_size |-> corner_island_size,
         center_aisle_count |-> center_aisle_count,
         bounds |-> b,
         flags |-> Dispatch(layout_orientation, b),
         space_w_deg |-> params.space_width \div lon_to_m,
         space_l_deg |-> params.space_length \div lat_to_m,
         aisle_w_deg |-> params.aisle_width \div lat_to_m,
         aisle_w_deg_lon |-> params.aisle_width \div lon_to_m,
         corner_exclusion_zones |-> CornerZones(b, corner_island_size \div lon_to_m, corner_island_size \div lat_to_m),
         center_bounds |-> CenterBounds(b, params.space_length \div lat_to_m, params.aisle_width \div lat_to_m, params.aisle_width \div lon_to_m)]

PassInputs(ss, sb) ==
    PackInputs(ss.layout_params, TargetSpaceCount(ss), sb.layout_orientation, sb.corner_island_size, sb.center_aisle_count)

\* if show_layout and layout_params: the pass packs and draws a layout.
LayoutRequested(ss) == ss.show_layout /\ ss.layout_params # NoParams

\* The store with parking_spaces_3d written in optimized mode only.
StoreSpacesOptimized3D(ss, parking_spaces) ==
    [ss EXCEPT !.actual_spaces_drawn = Len(parking_spaces),
               !.current_layout_type = IF ss.show_conservative THEN "conservative" ELSE "optimized",
               !.conservative_spaces = IF ss.show_conservative THEN Len(parking_spaces) ELSE @,
               !.optimized_spaces = IF ss.show_conservative THEN @ ELSE Len(parking_spaces),
               !.parking_spaces_3d = IF ss.show_conservative /\ ss.has_parking_spaces_3d THEN @ ELSE parking_spaces,
               !.has_parking_spaces_3d = TRUE]

\* What the pass stores once the spaces are drawn: actual_spaces_drawn,
\* current_layout_type, conservative_spaces or optimized_spaces, and
\* parking_spaces_3d.
StoreSpaces(ss, parking_spaces) ==
    [ss EXCEPT !.actual_spaces_drawn = Len(parking_spaces),
               !.current_layout_type = IF ss.show_conservative THEN "conservative" ELSE "optimized",
               !.conservative_spaces = IF ss.show_conservative THEN Len(parking_spaces) ELSE @,
               !.optimized_spaces = IF ss.show_conservative THEN @ ELSE Len(parking_spaces),
               !.parking_spaces_3d = parking_spaces,
               !.has_parking_spaces_3d = TRUE]

\* The area of the drawn polygon as the results panel computes it: the
\* shoelace area of the vertices scaled by the fixed factors 111000 (latitude,
\* lat_to_m here) and 82000 (longitude, 3/4 of it here).
AreaM2(coords) == (Abs(Shoelace2(coords, 1)) * lat_to_m * lat_to_m * 3) \div 8

\* The estimate rounded to the nearest integer instead of truncated.
EstimatedSpacesPerLevelRounded(area_m2, sb) ==
    IF sb.calculation_method = "Area per Space (ITE Standard)"
    THEN (2 * area_m2 + sb.area_per_space) \div (2 * sb.area_per_space)
    ELSE (2 * area_m2 * sb.efficiency + sb.space_width * sb.space_length * 100) \div (2 * sb.space_width * sb.space_length * 100)

\* The estimate rounded up instead of truncated.
EstimatedSpacesPerLevelCeiling(area_m2, sb) ==
    IF sb.calculation_method = "Area per Space (ITE Standard)"
    THEN (area_m2 + sb.area_per_space - 1) \div sb.area_per_space
    ELSE (area_m2 * sb.efficiency + sb.space_width * sb.space_length * 100 - 1) \div (sb.space_width * sb.space_length * 100)

\* estimated_spaces_per_level: int(area_m2 / area_per_space), or
\* int((area_m2 * efficiency) / space_area).
EstimatedSpacesPerLevel(area_m2, sb) ==
    IF sb.calculation_method = "Area per Space (ITE Standard)"
    THEN area_m2 \div sb.area_per_space
    ELSE (area_m2 * sb.efficiency) \div (sb.space_width * sb.space_length * 100)

\* estimated_spaces = estimated_spaces_per_level * num_levels
EstimatedSpaces(coords, sb) == EstimatedSpacesPerLevel(AreaM2(coords), sb) * sb.num_levels

\* The session at the start of a pass that draws a layout.
LayoutSession(polygon, setting, parking_type, estimated_spaces, conservative) ==
    [polygon_coords |-> polygon,
     polygon_center |-> PolygonCenter(polygon),
     polygon_zoom |-> 19,
     show_layout |-> TRUE,
     show_conservative |-> conservative,
     layout_params |-> LayoutParams(polygon, setting[1], setting[2], setting[3], parking_type, estimated_spaces, conservative),
     calculation_results |-> [area_m2 |-> AreaM2(polygon), estimated_spaces |-> estimated_spaces,
                              estimated_spaces_per_level |-> estimated_spaces, num_levels |-> 1],
     actual_spaces_drawn |-> NoneInt,
     current_layout_type |-> "optimized",
     optimized_spaces |-> NoneInt,
     conservative_spaces |-> NoneInt,
     parking_spaces_3d |-> <<>>,
     has_parking_spaces_3d |-> FALSE]

\* Floor Height as the widget of the structure type first shows it: 3.5 m
\* for a parking structure, 3.0 m underground; floor_height = 0 on a surface
\* lot.
FloorHeight(structure_type) ==
    CASE structure_type = "Parking Structure (3D)" -> 28
      [] structure_type = "Underground Parking (3D)" -> M(3)
      [] OTHER -> 0

\* The widgets of a pass; the page opens in the 2D map view, and the 3D view
\* opens in its "Stacked (Compact)" style.
Sidebar(parking_type, setting, layout_orientation, corner, estimator, structure) ==
    [parking_type |-> parking_type,
     calculation_method |-> estimator.calculation_method,
     area_per_space |-> estimator.area_per_space,
     efficiency |-> estimator.efficiency,
     structure_type |-> structure.structure_type,
     num_levels |-> structure.num_levels,
     floor_height |-> FloorHeight(structure.structure_type),
     view_mode |-> "2D Map View",
     view_style |-> "Stacked (Compact)",
     space_width |-> setting[1],
     space_length |-> setting[2],
     aisle_width |-> setting[3],
     layout_orientation |-> layout_orientation,
     include_corner_islands |-> corner.include_corner_islands,
     corner_island_size |-> corner.corner_island_size,
     center_aisle_count |-> corner.center_aisle_count]

\* ---------------------------------------------------------------- PackSpec
\* One packing pass, step by step, from every session in which a layout has
\* just been requested: small lots under every orientation, large lots under
\* perimeter + center, on a surface lot.  The estimate of the snapshot is the
\* estimator's under the sidebar of the pass; optimized mode does not read
\* it, so one calculation method stands for all there.
PackInit ==
    \E parking_type \in ParkingTypes, layout_orientation \in LayoutOrientations, conservative \in BOOLEAN :
    \E setting \in SpaceSettings(parking_type), corner \in CornerSettings(layout_orientation) :
    \E polygon \in SmallLots \cup (IF layout_orientation = "Perimeter + Center (High Efficiency)" THEN LargeLots ELSE {}) :
    \E estimator \in (IF conservative THEN EstimatorSettings ELSE {e \in EstimatorSettings : e.efficiency > 0}) :
        /\ sidebar = Sidebar(parking_type, setting, layout_orientation, corner, estimator, SurfaceLot)
        /\ session_state = LayoutSession(polygon, setting, parking_type, EstimatedSpaces(polygon, sidebar), conservative)
        /\ scan = PackStart(PassInputs(session_state, sidebar))
        /\ pass_raised = FALSE
        /\ view = NoView
        /\ page = NoPage

In == PassInputs(session_state, sidebar)

ScanStep ==
    /\ LayoutRequested(session_state)
    /\ \E in \in {In} : scan' = PackStep(in, scan)
    /\ UNCHANGED <<session_state, sidebar, pass_raised, view, page>>

StartScan == scan.pc = "start" /\ ScanStep

RowScan == scan.pc \in {"rows", "rows_in"} /\ ~Angled(In) /\ ScanStep

ColumnScan == scan.pc \in {"cols", "cols_in"} /\ ~Angled(In) /\ ScanStep

AngledRowScan == scan.pc \in {"rows", "rows_in"} /\ Angled(In) /\ ScanStep

AngledColumnScan == scan.pc \in {"cols", "cols_in"} /\ Angled(In) /\ ScanStep

ParallelScan == scan.pc \in {"par_h", "par_v"} /\ ScanStep

PerimeterScan == scan.pc \in {"top", "bottom", "left", "right"} /\ ScanStep

CenterScan == scan.pc \in {"center_top", "center_bottom"} /\ ScanStep

\* The spaces are drawn and the counts stored.
StoreLayout ==
    /\ scan.pc = "done"
    /\ session_state' = StoreSpaces(session_state, scan.parking_spaces)
    /\ scan' = [scan EXCEPT !.pc = "stored"]
    /\ UNCHANGED <<sidebar, pass_raised, view, page>>

\* An uncaught exception ends the pass: nothing is stored.
AbortPass ==
    /\ scan.pc = "raised"
    /\ pass_raised' = TRUE
    /\ scan' = [scan EXCEPT !.pc = "aborted"]
    /\ UNCHANGED <<session_state, sidebar, view, page>>

PackNext ==
    \/ StartScan
    \/ RowScan
    \/ ColumnScan
    \/ AngledRowScan
    \/ AngledColumnScan
    \/ ParallelScan
    \/ PerimeterScan
    \/ CenterScan
    \/ StoreLayout
    \/ AbortPass

PackSpec == PackInit /\ [][PackNext]_vars

\* ------------------------------------------------- claims of the packing
Spaces == scan.parking_spaces

Returned == scan.pc = "done"

Perpendicular == TypeBranch(In.p_type) = "perpendicular"

UsesPerimeter == InFlags(In).use_perimeter_center

\* Twice the area of the polygon and twice the area of n spaces, both in
\* the same unit (1/64 m2): vertices in degrees times the metres-per-degree
\* factors of the pass.
PolygonArea2 == Abs(Shoelace2(In.polygon, 1)) * LonToM(In.bounds) * lat_to_m

SpacesArea2(n) == 2 * n * In.space_w * In.space_l

\* C1: the number of spaces a packing pass returns is at least 0 and at most
\* floor(polygon_area / (space_width * space_length)), under every strategy.
C1_CountWithinArea == Returned => (Len(Spaces) >= 0 /\ SpacesArea2(Len(Spaces)) <= PolygonArea2)

\* C2: in the row-based and column-based perpendicular layouts no two
\* rectangles of the list have overlapping interiors, whatever space_length
\* and aisle_width are.
C2_NoOverlap ==
    (Perpendicular /\ ~UsesPerimeter) =>
        \A i \in 1..Len(Spaces) : \A j \in 1..Len(Spaces) :
            i < j => ~InteriorsOverlap(Box(Spaces[i]), Box(Spaces[j]))

\* C3: in conservative mode the number of accepted spaces never exceeds the
\* cap target_space_count, under every strategy.
C3_CapRespected == session_state.show_conservative => Len(Spaces) <= In.target_space_count

\* C4: in the perimeter + center strategy no rectangle of the returned list
\* shares a point with a corner exclusion zone or has its centroid in one,
\* whether or not the corner islands are displayed.
C4_CornersExcluded ==
    (Returned /\ UsesPerimeter) =>
        \A i \in 1..Len(Spaces) : \A k \in 1..4 :
            /\ ~BoxesIntersect(Box(Spaces[i]), CornerZones(In.bounds, In.corner_island_size \div LonToM(In.bounds), In.corner_island_size \div lat_to_m)[k])
            /\ ~BoxContains4(CornerZones(In.bounds, In.corner_island_size \div LonToM(In.bounds), In.corner_island_size \div lat_to_m)[k], Centroid4(Spaces[i]))

\* The first candidate of the top strip lies with its centroid inside the
\* polygon and touches the top-left corner zone.
TopLeftCandidate == RectRingDown(In.bounds[1], In.bounds[4] - In.space_l_deg - In.aisle_w_deg, In.space_w_deg, In.space_l_deg)

\* C4 witness: a perimeter + center pass with the islands not displayed has
\* returned spaces, and left out a candidate whose centroid is inside the
\* polygon because it touches a corner zone.
C4_Witness ==
    /\ Returned /\ UsesPerimeter /\ Len(Spaces) > 0
    /\ ~sidebar.include_corner_islands
    /\ Contains4(In.polygon, Centroid4(TopLeftCandidate))
    /\ BoxesIntersect(Box(TopLeftCandidate), In.corner_exclusion_zones[1])
    /\ \A i \in 1..Len(Spaces) : Spaces[i] # TopLeftCandidate

\* A space of the top or bottom strip / of the left or right strip, by its
\* place in the lot.
InRowStrip(r) ==
    /\ Box(r).bottom \in {In.bounds[4] - In.space_l_deg - In.aisle_w_deg, In.bounds[2] + In.aisle_w_deg}
    /\ Box(r).top = Box(r).bottom + In.space_l_deg
    /\ Box(r).right = Box(r).left + In.space_w_deg

InColumnStrip(r) ==
    /\ Box(r).left \in {In.bounds[1] + In.aisle_w_deg_lon, In.bounds[3] - In.space_l_deg - In.aisle_w_deg_lon}
    /\ Box(r).right = Box(r).left + In.space_l_deg
    /\ Box(r).top = Box(r).bottom + In.space_w_deg

\* C5: in the list a perimeter + center pass returns, no space of the top or
\* bottom strip overlaps a space of the left or right strip.
C5_StripsDisjoint ==
    (Returned /\ UsesPerimeter) =>
        \A i \in 1..Len(Spaces) : \A j \in 1..Len(Spaces) :
            (i # j /\ InRowStrip(Spaces[i]) /\ InColumnStrip(Spaces[j])) =>
                ~InteriorsOverlap(Box(Spaces[i]), Box(Spaces[j]))

\* C6: every space accepted in a center row lies inside the center-bounds
\* rectangle.
C6_CenterInside ==
    [][(scan.pc \in {"center_top", "center_bottom"} /\ Len(scan'.parking_spaces) > Len(Spaces)) =>
        LET r == Box(scan'.parking_spaces[Len(scan'.parking_spaces)])
        IN  /\ In.center_bounds.left <= r.left /\ r.right <= In.center_bounds.right
            /\ In.center_bounds.bottom <= r.bottom /\ r.top <= In.center_bounds.top]_vars

\* The sides of the bounding box in the unit of the space dimensions.
LotWidth == (In.bounds[3] - In.bounds[1]) * LonToM(In.bounds)

LotHeight == (In.bounds[4] - In.bounds[2]) * lat_to_m

\* A degenerate polygon: zero area, or a bounding box in which one parking
\* space fits neither upright nor lying.
Degenerate ==
    \/ Shoelace2(In.polygon, 1) = 0
    \/ /\ (LotWidth < In.space_w \/ LotHeight < In.space_l)
       /\ (LotWidth < In.space_l \/ LotHeight < In.space_w)

\* C7: a degenerate polygon yields zero placements under every strategy, and
\* the pass does not raise.
C7_DegenerateEmpty == Degenerate => (Len(Spaces) = 0 /\ scan.pc # "raised")

\* The candidate a row or column scan is about to examine.
Scanning == scan.pc \in {"rows_in", "cols_in"}

Candidate == IF scan.pc = "rows_in" THEN RowCandidate(In, scan) ELSE ColumnCandidate(In, scan)

CandidateInRange ==
    IF scan.pc = "rows_in" THEN scan.current_x < In.bounds[3] ELSE scan.current_y < In.bounds[4]

\* C8: every rectangle of the returned list has its centroid strictly inside
\* the polygon, and in an optimized row-based or column-based perpendicular
\* layout a scanned candidate is appended if and only if its centroid is
\* inside the polygon.
C8_CentroidRule ==
    /\ [](Returned => \A i \in 1..Len(Spaces) : Contains4(In.polygon, Centroid4(Spaces[i])))
    /\ [][(Scanning /\ CandidateInRange /\ Perpendicular /\ ~session_state.show_conservative) =>
            IF Contains4(In.polygon, Centroid4(Candidate))
            THEN scan'.parking_spaces = Append(Spaces, Candidate)
            ELSE scan'.parking_spaces = Spaces]_vars

\* The last candidate of the first row band.
LastOfFirstBand ==
    RowCandidate(In, [scan EXCEPT !.current_x = In.bounds[3] - In.space_w_deg, !.current_y = In.bounds[2], !.row_num = 0])

\* C8 witness: an optimized row-based perpendicular pass has returned spaces
\* and has left out the last candidate of its first band, whose centroid is
\* not inside the polygon.
C8_Witness ==
    /\ Returned /\ Perpendicular /\ InFlags(In).use_rows /\ ~session_state.show_conservative
    /\ Len(Spaces) > 0
    /\ ~Contains4(In.polygon, Centroid4(LastOfFirstBand))
    /\ \A i \in 1..Len(Spaces) : Spaces[i] # LastOfFirstBand

\* The scan grid of the perpendicular layouts, written out: the candidates
\* of the band at y (at x), from the left (lower) edge of the bounding box
\* in steps of one space width.
Steps(from, to, step) == (to - from + step - 1) \div step

RowBand(y, k) ==
    [j \in 1..Steps(In.bounds[1], In.bounds[3], In.space_w_deg) |->
        create_space_coords(In.bounds[1] + (j - 1) * In.space_w_deg, y, In.space_w_deg, In.space_l_deg, "horizontal", Direction(k), FALSE)]

ColumnBand(x, k) ==
    [j \in 1..Steps(In.bounds[2], In.bounds[4], In.space_w_deg) |->
        create_space_coords(x, In.bounds[2] + (j - 1) * In.space_w_deg, In.space_w_deg, In.space_l_deg, "vertical", Direction(k), FALSE)]

InsidePolygon(r) == Contains4(In.polygon, Centroid4(r))

\* What one band adds to a list of n spaces: its candidates with the
\* centroid inside, in order, up to the cap (and one at least).
BandSpaces(band, n) ==
    LET inside == SelectSeq(band, InsidePolygon)
    IN  SubSeq(inside, 1, Min2(Len(inside), Max2(1, In.target_space_count - n)))

RECURSIVE ExpectedRows(_, _, _)
ExpectedRows(acc, y, k) ==
    IF y < In.bounds[4]
    THEN ExpectedRows(acc \o BandSpaces(RowBand(y, k), Len(acc)),
                      y + In.aisle_w_deg + (IF k % 2 = 0 THEN In.space_l_deg ELSE 0), k + 1)
    ELSE acc

RECURSIVE ExpectedColumns(_, _, _)
ExpectedColumns(acc, x, k) ==
    IF x < In.bounds[3]
    THEN ExpectedColumns(acc \o BandSpaces(ColumnBand(x, k), Len(acc)),
                         x + In.aisle_w_deg_lon + (IF k % 2 = 0 THEN In.space_l_deg ELSE 0), k + 1)
    ELSE acc

ExpectedSpaces ==
    LET rows == IF InFlags(In).use_rows THEN ExpectedRows(<<>>, In.bounds[2], 0) ELSE <<>>
    IN  IF InFlags(In).use_columns THEN ExpectedColumns(rows, In.bounds[1], 0) ELSE rows

CenterTooSmall ==
    \/ In.center_bounds.top - In.center_bounds.bottom
            <= In.center_aisle_count * (2 * In.space_l_deg + In.aisle_w_deg) + (In.center_aisle_count - 1) * In.aisle_w_deg
    \/ In.center_bounds.right - In.center_bounds.left <= In.space_w_deg

NoResults == [none |-> TRUE]

\* st.session_state after the first pass of a new session.
EmptySession ==
    [polygon_coords |-> <<>>,
     polygon_center |-> NoCenter,
     polygon_zoom |-> NoneInt,
     show_layout |-> FALSE,
     show_conservative |-> FALSE,
     layout_params |-> NoParams,
     calculation_results |-> NoResults,
     actual_spaces_drawn |-> NoneInt,
     current_layout_type |-> "optimized",
     optimized_spaces |-> NoneInt,
     conservative_spaces |-> NoneInt,
     parking_spaces_3d |-> <<>>,
     has_parking_spaces_3d |-> FALSE]

\* The one element of a singleton: names a value that is computed once.
The(S) == CHOOSE x \in S : TRUE

\* The packing position of a pass that draws no layout.
Idle == [pc |-> "idle", current_x |-> 0, current_y |-> 0, row_num |-> 0, parking_spaces |-> <<>>, l_defined |-> FALSE]

\* if show_layout and layout_params: pack, draw and store; an exception of
\* the packing ends the pass with the session as it was.
LayoutBlock(ss, sb) ==
    IF LayoutRequested(ss)
    THEN The({[ss |-> IF s.pc = "raised" THEN ss ELSE StoreSpaces(ss, s.parking_spaces), scan |-> s] :
                s \in {RunPacking(in) : in \in {PassInputs(ss, sb)}}})
    ELSE [ss |-> ss, scan |-> Idle]

\* if map_data and map_data.get('all_drawings'): the last drawing becomes
\* polygon_coords, its center polygon_center (with polygon_zoom = 19), and the
\* estimate is computed under the sidebar of the pass.
PolygonCapture(ss, sb, drawing) ==
    IF drawing = <<>>
    THEN ss
    ELSE [ss EXCEPT !.polygon_coords = drawing,
                    !.polygon_center = PolygonCenter(drawing),
                    !.polygon_zoom = 19,
                    !.calculation_results = [area_m2 |-> AreaM2(drawing), estimated_spaces |-> EstimatedSpaces(drawing, sb),
                                             estimated_spaces_per_level |-> EstimatedSpacesPerLevel(AreaM2(drawing), sb),
                                             num_levels |-> sb.num_levels]]

\* elevation of the spaces of a level (level from 0): above ground the
\* levels go up from 0, underground they go down from -floor_height.
ElevationAboveGround(structure_type, floor_height, level) == floor_height * level

Elevation(structure_type, floor_height, level) ==
    IF structure_type = "Underground Parking (3D)"
    THEN 0 - floor_height * (level + 1)
    ELSE floor_height * level

\* horizontal_offset_lon of a level in the exploded views:
\* (level - num_levels / 2) * max_range * 1.5
HorizontalOffsetLon(view_style, level, num_levels, max_range) ==
    IF view_style = "Stacked (Compact)"
    THEN 0
    ELSE ((2 * level - num_levels) * max_range * 3) \div 4

\* all_spaces_3d: for each level, each space of parking_spaces_3d shifted by
\* the offset of the level, at the elevation of the level.
AllSpaces3D(ss, sb) ==
    LET n == Len(ss.parking_spaces_3d)
        b == Bounds(ss.layout_params.polygon)
        max_range == Max2(b[4] - b[2], b[3] - b[1])
    IN  [k \in 1..(n * sb.num_levels) |->
            LET level == (k - 1) \div n
                space == ss.parking_spaces_3d[((k - 1) % n) + 1]
                horizontal_offset_lon == HorizontalOffsetLon(sb.view_style, level, sb.num_levels, max_range)
            IN  [polygon |-> [c \in 1..Len(space) |-> <<space[c][1] + horizontal_offset_lon, space[c][2]>>],
                 elevation |-> Elevation(sb.structure_type, sb.floor_height, level),
                 level_number |-> level + 1]]

\* The 3D view, at the top of the pass: rendered in the 3D view mode of a
\* structure if show_layout, layout_params, a count of drawn spaces that is
\* neither None nor 0, and parking_spaces_3d in the session.
View3D(ss, sb) ==
    IF /\ sb.view_mode = "3D Structure View"
       /\ sb.structure_type # "Surface Lot (2D)"
       /\ LayoutRequested(ss)
       /\ ss.actual_spaces_drawn \notin {NoneInt, 0}
       /\ ss.has_parking_spaces_3d
    THEN [rendered |-> TRUE,
          all_spaces_3d |-> AllSpaces3D(ss, sb),
          total_spaces_all_levels |-> ss.actual_spaces_drawn * sb.num_levels]
    ELSE NoView

\* The results panel shows the layout comparison if a layout is shown, the
\* count of drawn spaces is neither None nor 0, and both optimized_spaces and
\* conservative_spaces are keys of the session.
ComparisonShown(ss) ==
    /\ ss.calculation_results # NoResults
    /\ ss.show_layout
    /\ ss.actual_spaces_drawn \notin {NoneInt, 0}
    /\ ss.optimized_spaces # NoneInt
    /\ ss.conservative_spaces # NoneInt

\* cons_spaces = conservative_spaces * results.get('num_levels', 1)
ConsSpaces(ss) == ss.conservative_spaces * ss.calculation_results.num_levels

\* The caption of the comparison divides difference by cons_spaces.
ResultsPanelRaises(ss) == ComparisonShown(ss) /\ ConsSpaces(ss) = 0

\* One pass without a button click, with what the map component returns: the
\* 3D view, the layout block, the map, the polygon capture and the results panel. An
\* exception of the results panel ends the pass after the session writes of
\* the blocks before it.
PassEnd(ss, sb, drawing) ==
    The({IF lb.scan.pc = "raised"
         THEN [ss |-> ss, scan |-> lb.scan, raised |-> TRUE, view |-> View3D(ss, sb)]
         ELSE The({[ss |-> captured, scan |-> lb.scan, raised |-> ResultsPanelRaises(captured), view |-> View3D(ss, sb)] :
                     captured \in {PolygonCapture(lb.ss, sb, drawing)}}) :
            lb \in {LayoutBlock(ss, sb)}})

\* The buttons are rendered if st.session_state.calculation_results.
ButtonsShown(ss) == ss.calculation_results # NoResults

\* The handlers of the three buttons.
OptimizedHandler(ss, sb) ==
    [ss EXCEPT !.show_layout = TRUE, !.show_conservative = FALSE,
               !.layout_params = LayoutParams(ss.polygon_coords, sb.space_width, sb.space_length, sb.aisle_width,
                                              sb.parking_type, ss.calculation_results.estimated_spaces, FALSE)]

ConservativeHandler(ss, sb) ==
    [ss EXCEPT !.show_layout = TRUE, !.show_conservative = TRUE,
               !.layout_params = LayoutParams(ss.polygon_coords, sb.space_width, sb.space_length, sb.aisle_width,
                                              sb.parking_type, ss.calculation_results.estimated_spaces, TRUE)]

\* A Clear Layout that forgets the counts of the layouts drawn as well.
ClearHandlerCounts(ss) ==
    [ss EXCEPT !.show_layout = FALSE, !.show_conservative = FALSE,
               !.actual_spaces_drawn = NoneInt, !.layout_params = NoParams,
               !.optimized_spaces = NoneInt, !.conservative_spaces = NoneInt]

\* A Clear Layout that resets show_layout and layout_params only.
ClearHandlerLayoutOnly(ss) ==
    [ss EXCEPT !.show_layout = FALSE, !.layout_params = NoParams]

ClearHandler(ss) ==
    [ss EXCEPT !.show_layout = FALSE, !.show_conservative = FALSE,
               !.actual_spaces_drawn = NoneInt, !.layout_params = NoParams]

Handler(ss, sb, button) ==
    CASE button = "optimized" -> OptimizedHandler(ss, sb)
      [] button = "conservative" -> ConservativeHandler(ss, sb)
      [] OTHER -> ClearHandler(ss)

\* Whether the click ends its pass with st.rerun(): the pass reached the
\* buttons, and the layout buttons act only if st.session_state.polygon_coords.
Reruns(first, button) ==
    /\ ~first.raised
    /\ ButtonsShown(first.ss)
    /\ IF button = "clear" THEN first.ss.show_layout ELSE first.ss.polygon_coords # <<>>

\* What the map component returns in a pass: nothing, or the last drawing
\* (the same in the pass of a click and in the pass its st.rerun() starts).
Drawings(ss) == {<<>>, ss.polygon_coords}

\* Sidebars and lots of the session: a lot of 12 m by 12 m and a lot of
\* zero width.
SessionParkingTypes == {"Standard Perpendicular (90 deg)", "Parallel"}

SessionCornerSettings(layout_orientation) ==
    {c \in CornerSettings(layout_orientation) :
        <<c.include_corner_islands, c.corner_island_size, c.center_aisle_count>>
            \in {<<FALSE, 0, 0>>, <<TRUE, M(3), 1>>, <<TRUE, M(8), 2>>}}

SessionSpaceSettings(parking_type) ==
    IF parking_type = "Parallel" THEN SpaceSettings(parking_type) ELSE {<<M(2), M(6), M(5)>>}

SessionEstimatorSettings == {e \in EstimatorSettings : e.area_per_space = M(30) * 8}

SessionSidebars ==
    UNION {UNION {{Sidebar(p, s, o, c, e, st) : s \in SessionSpaceSettings(p), c \in SessionCornerSettings(o)} :
                    p \in SessionParkingTypes, o \in LayoutOrientations} :
            e \in SessionEstimatorSettings, st \in StructureSettings}

SessionLots == {RectLot(40, 80, 48, 48), RectLot(40, 80, 0, 48)}

\* The widget groups of the sidebar; one interaction changes one group.
Groups(sb) ==
    << <<sb.parking_type, sb.space_width, sb.space_length, sb.aisle_width>>,
       <<sb.layout_orientation, sb.include_corner_islands, sb.corner_island_size, sb.center_aisle_count>>,
       <<sb.calculation_method, sb.area_per_space, sb.efficiency>>,
       <<sb.structure_type, sb.num_levels, sb.floor_height>>,
       <<sb.view_mode>>,
       <<sb.view_style>> >>

SidebarChanges(sb) ==
    {t \in SessionSidebars : Cardinality({g \in 1..6 : Groups(t)[g] # Groups(sb)[g]}) = 1}

Init ==
    /\ session_state = EmptySession
    /\ sidebar \in SessionSidebars
    /\ scan = Idle
    /\ pass_raised = FALSE
    /\ view = NoView
    /\ page = NoPage

Apply(pass) ==
    \E r \in {pass} :
        /\ session_state' = r.ss
        /\ scan' = r.scan
        /\ pass_raised' = r.raised
        /\ view' = r.view
        /\ UNCHANGED page

\* The user changes a sidebar widget.
ChangeSidebar ==
    \E sb \in SidebarChanges(sidebar), drawing \in Drawings(session_state) :
        /\ sidebar' = sb
        /\ Apply(PassEnd(session_state, sb, drawing))

\* The user draws a polygon on the map, which is on the page if the last
\* pass got past the layout block.
DrawPolygon ==
    /\ scan.pc # "raised"
    /\ \E polygon \in SessionLots : Apply(PassEnd(session_state, sidebar, polygon))
    /\ UNCHANGED sidebar

\* A button click: its pass, the handler, and the pass st.rerun() starts.
ClickOutcome(ss, sb, button, drawing) ==
    The({IF Reruns(first, button)
         THEN The({PassEnd(handled, sb, drawing) : handled \in {Handler(first.ss, sb, button)}})
         ELSE first :
            first \in {PassEnd(ss, sb, drawing)}})

Click(button) ==
    /\ \E drawing \in Drawings(session_state) : Apply(ClickOutcome(session_state, sidebar, button, drawing))
    /\ UNCHANGED sidebar

\* The buttons are on the page if the last pass reached them.
ClickOptimizedLayout == ~pass_raised /\ ButtonsShown(session_state) /\ Click("optimized")

ClickConservativeLayout == ~pass_raised /\ ButtonsShown(session_state) /\ Click("conservative")

\* Clear Layout is on the page if st.session_state.get('show_layout', False).
ClearShown == ~pass_raised /\ ButtonsShown(session_state) /\ session_state.show_layout

ClickClearLayout == ClearShown /\ Click("clear")

Next ==
    \/ ChangeSidebar
    \/ DrawPolygon
    \/ ClickOptimizedLayout
    \/ ClickConservativeLayout
    \/ ClickClearLayout

Spec == Init /\ [][Next]_vars

\* ------------------------------------------------- claims of the session
SpaceSet(s) == {s.parking_spaces[i] : i \in 1..Len(s.parking_spaces)}

\* C10: the layout drawn is a function of the layout_params snapshot only:
\* a pass after a sidebar change that leaves the snapshot as it was draws the
\* set of spaces the pass before it drew.
C10_SnapshotOnly ==
    [][(/\ sidebar' # sidebar
        /\ LayoutRequested(session_state)
        /\ session_state'.layout_params = session_state.layout_params
        /\ scan.pc = "done")
        => (scan'.pc = "done" => SpaceSet(scan') = SpaceSet(scan))]_vars

\* C11: after any sequence of user actions no pass raises a division by zero
\* when computing densities or deltas: the optimized-vs-conservative
\* percentage too falls back to a defined value when conservative_spaces is 0.
C11_NoDivisionByZero == ~(pass_raised /\ scan.pc # "raised" /\ ResultsPanelRaises(session_state))

\* --------------------------------------------------------- PackSpecFair
\* The packing pass under the scheduling of the script: a pass that has a
\* step to take takes it.  The passes start as those of PackSpec do, on a lot
\* of 12 m by 12 m, a lot of zero width, a lot of zero area, and under
\* perimeter + center a lot with room for center rows.
FairLots(layout_orientation) ==
    {RectLot(40, 80, 48, 48), RectLot(40, 80, 0, 48), <<<<40, 80>>, <<52, 92>>, <<64, 104>>, <<40, 80>>>>}
        \cup (IF layout_orientation = "Perimeter + Center (High Efficiency)" THEN {RectLot(40, 80, 116, 164)} ELSE {})

FairInit ==
    \E parking_type \in ParkingTypes, layout_orientation \in LayoutOrientations, conservative \in BOOLEAN :
    \E setting \in SpaceSettings(parking_type), corner \in SessionCornerSettings(layout_orientation) :
    \E polygon \in FairLots(layout_orientation), estimator \in SessionEstimatorSettings :
        /\ sidebar = Sidebar(parking_type, setting, layout_orientation, corner, estimator, SurfaceLot)
        /\ session_state = LayoutSession(polygon, setting, parking_type, EstimatedSpaces(polygon, sidebar), conservative)
        /\ scan = PackStart(PassInputs(session_state, sidebar))
        /\ pass_raised = FALSE
        /\ view = NoView
        /\ page = NoPage

PackSpecFair == FairInit /\ [][PackNext]_vars /\ WF_vars(PackNext)

ImpliedEfficiency(space_area, area_per_space) ==
    IF area_per_space > 0 THEN (space_area * 100) \div area_per_space ELSE 85

EstimatorInputs ==
    {[calculation_method |-> "Area per Space (ITE Standard)", area_per_space |-> a, efficiency |-> 0] :
        a \in {0, M(20) * 8, M(30) * 8, M(60) * 8}}
    \cup {[calculation_method |-> "Efficiency Factor", area_per_space |-> 0, efficiency |-> e] : e \in {50, 85, 95}}

AllStructureSettings ==
    {SurfaceLot} \cup {[structure_type |-> t, num_levels |-> n] :
                        t \in {"Parking Structure (3D)", "Underground Parking (3D)"}, n \in 1..MaxStructureLevels}

EstimatorSidebars ==
    {[sb EXCEPT !.efficiency = IF sb.calculation_method = "Efficiency Factor" THEN @
                               ELSE ImpliedEfficiency(sb.space_width * sb.space_length, sb.area_per_space)] :
        sb \in UNION {{Sidebar(p, s, "Auto (Best Fit)", c, e, st) :
                        s \in SpaceSettings(p) \cup {<<0, M(5), M(6)>>}, c \in CornerSettings("Auto (Best Fit)"),
                        e \in EstimatorInputs, st \in AllStructureSettings} : p \in ParkingTypes}}

EstimatorLots == {RectLot(40, 80, i * 16, j * 16) : i \in 0..MaxEstimatorSide, j \in 0..MaxEstimatorSide}

\* The divisor of the estimate: area_per_space, or space_area.
EstimatorDivisor(sb) ==
    IF sb.calculation_method = "Area per Space (ITE Standard)"
    THEN sb.area_per_space
    ELSE sb.space_width * sb.space_length

EstimatorInit ==
    /\ session_state = EmptySession
    /\ sidebar \in EstimatorSidebars
    /\ scan = Idle
    /\ pass_raised = FALSE
    /\ view = NoView
    /\ page = NoPage

\* The pass in which the map returns a drawing: polygon_coords is stored,
\* then the estimate is computed and stored; a division by zero ends the
\* pass before calculation_results is written.
Estimate ==
    \E polygon \in EstimatorLots :
        /\ IF EstimatorDivisor(sidebar) = 0
           THEN /\ session_state' = [session_state EXCEPT !.polygon_coords = polygon,
                                                           !.polygon_center = PolygonCenter(polygon),
                                                           !.polygon_zoom = 19]
                /\ pass_raised' = TRUE
           ELSE /\ session_state' = PolygonCapture(session_state, sidebar, polygon)
                /\ pass_raised' = FALSE
        /\ UNCHANGED <<sidebar, scan, view, page>>

EstimateITE == sidebar.calculation_method = "Area per Space (ITE Standard)" /\ Estimate

EstimateEfficiencyFactor == sidebar.calculation_method = "Efficiency Factor" /\ Estimate

EstimatorNext ==
    \/ EstimateITE
    \/ EstimateEfficiencyFactor

EstimatorSpec == EstimatorInit /\ [][EstimatorNext]_vars

Estimated == session_state.calculation_results # NoResults /\ ~pass_raised

\* C13: estimated_spaces_per_level is floor(area_m2 * efficiency /
\* (space_width * space_length)) under the Efficiency-Factor method and
\* floor(area_m2 / area_per_space) under the ITE method, whatever the
\* efficiency; estimated_spaces is estimated_spaces_per_level * num_levels,
\* and num_levels is 1 for a surface lot.  (n is the floor of a / b when
\* n * b <= a < (n + 1) * b.)
C13_EstimateIsFloor ==
    Estimated =>
        LET r == session_state.calculation_results
            n == r.estimated_spaces_per_level
        IN  /\ r.area_m2 = AreaM2(session_state.polygon_coords)
            /\ IF sidebar.calculation_method = "Area per Space (ITE Standard)"
               THEN /\ n * sidebar.area_per_space <= r.area_m2
                    /\ r.area_m2 < (n + 1) * sidebar.area_per_space
               ELSE /\ n * sidebar.space_width * sidebar.space_length * 100 <= r.area_m2 * sidebar.efficiency
                    /\ r.area_m2 * sidebar.efficiency < (n + 1) * sidebar.space_width * sidebar.space_length * 100
            /\ r.estimated_spaces = n * sidebar.num_levels
            /\ (sidebar.structure_type = "Surface Lot (2D)" => r.estimated_spaces = n)

\* C13 witness: an Efficiency-Factor estimate of several spaces a level that
\* the floor rounds down, on a structure of several levels.
C13_Witness ==
    /\ Estimated
    /\ sidebar.calculation_method = "Efficiency Factor"
    /\ sidebar.num_levels > 1
    /\ session_state.calculation_results.estimated_spaces_per_level >= 2
    /\ 2 * ((session_state.calculation_results.area_m2 * sidebar.efficiency) % (sidebar.space_width * sidebar.space_length * 100))
          >= sidebar.space_width * sidebar.space_length * 100

\* C14: with efficiency and space area (or area_per_space) fixed, doubling
\* area_m2 doubles estimated_spaces_per_level up to floor rounding: est(2a)
\* is 2 * est(a) or 2 * est(a) + 1.
C14_ScaleInvariance ==
    Estimated =>
        EstimatedSpacesPerLevel(2 * session_state.calculation_results.area_m2, sidebar)
            \in {2 * session_state.calculation_results.estimated_spaces_per_level,
                 2 * session_state.calculation_results.estimated_spaces_per_level + 1}

\* C14 witness: an estimate of at least one space whose double-area
\* estimate is odd.
C14_Witness ==
    /\ Estimated
    /\ session_state.calculation_results.estimated_spaces_per_level >= 1
    /\ EstimatedSpacesPerLevel(2 * session_state.calculation_results.area_m2, sidebar)
            = 2 * session_state.calculation_results.estimated_spaces_per_level + 1

\* ------------------------------------------------------------- ViewSpec
\* The session of a structure: the sidebars differ in structure type, number
\* of levels, floor height, view mode and 3D view style, and every pass
\* starts with the 3D view.
ViewSidebars ==
    LET p == "Standard Perpendicular (90 deg)"
        sidebars == {Sidebar(p, s, "Row-Based (Horizontal)", c, e, st) :
                        s \in SessionSpaceSettings(p), c \in CornerSettings("Row-Based (Horizontal)"),
                        e \in SessionEstimatorSettings, st \in AllStructureSettings}
    IN  {sb \in sidebars : sb.structure_type = "Surface Lot (2D)"}
        \cup {[sb EXCEPT !.floor_height = h, !.view_mode = mv[1], !.view_style = mv[2]] :
                sb \in {t \in sidebars : t.structure_type # "Surface Lot (2D)"},
                h \in {M(3), 28},
                mv \in {<<"2D Map View", "Stacked (Compact)">>, <<"3D Structure View", "Stacked (Compact)">>,
                        <<"3D Structure View", "Exploded (All Levels)">>}}

ViewChanges(sb) ==
    {t \in ViewSidebars : Cardinality({g \in 1..6 : Groups(t)[g] # Groups(sb)[g]}) = 1}

ViewInit ==
    /\ session_state = EmptySession
    /\ sidebar \in ViewSidebars
    /\ scan = Idle
    /\ pass_raised = FALSE
    /\ view = NoView
    /\ page = NoPage

\* The user changes a widget of the sidebar or of the view.
ChangeView ==
    \E sb \in ViewChanges(sidebar), drawing \in Drawings(session_state) :
        /\ sidebar' = sb
        /\ Apply(PassEnd(session_state, sb, drawing))

ViewNext ==
    \/ ChangeView
    \/ DrawPolygon
    \/ ClickOptimizedLayout
    \/ ClickConservativeLayout
    \/ ClickClearLayout

ViewSpec == ViewInit /\ [][ViewNext]_vars

\* ------------------------------------------------ claims of the 3D view
\* The number of spaces of one level of the rendered view.
PerLevel == Len(view.all_spaces_3d) \div sidebar.num_levels

\* C15: in the 3D extrusion, for every level index i in 0..N-1 and floor
\* height H, every space of level i gets elevation i * H in a parking
\* structure and -H * (i + 1) underground.
C15_LevelElevation ==
    view.rendered =>
        \A k \in 1..Len(view.all_spaces_3d) :
            LET i == (k - 1) \div PerLevel
            IN  /\ i \in 0..(sidebar.num_levels - 1)
                /\ view.all_spaces_3d[k].elevation =
                        IF sidebar.structure_type = "Parking Structure (3D)"
                        THEN i * sidebar.floor_height
                        ELSE 0 - sidebar.floor_height * (i + 1)

\* C15 witness: an underground structure of several levels is rendered with
\* a floor height of 3.5 m, and its lowest level lies below -3.5 m.
C15_Witness ==
    /\ view.rendered
    /\ sidebar.structure_type = "Underground Parking (3D)"
    /\ sidebar.num_levels > 1
    /\ sidebar.floor_height = 28
    /\ view.all_spaces_3d[Len(view.all_spaces_3d)].elevation < 0 - 28

\* C16: whenever the 3D view can render, len(parking_spaces_3d) is
\* actual_spaces_drawn; whenever it is rendered, the number of extruded
\* spaces is the reported total actual_spaces_drawn * num_levels, a multiple
\* of N, and every level holds a copy of the first, moved along the
\* longitude by the offset of the view style and by nothing when stacked.
C16_ExtrudedCount ==
    /\ (LayoutRequested(session_state) /\ session_state.actual_spaces_drawn \notin {NoneInt, 0}
            /\ session_state.has_parking_spaces_3d)
        => Len(session_state.parking_spaces_3d) = session_state.actual_spaces_drawn
    /\ view.rendered =>
        /\ Len(view.all_spaces_3d) = view.total_spaces_all_levels
        /\ Len(view.all_spaces_3d) = PerLevel * sidebar.num_levels
        /\ \A i \in 0..(sidebar.num_levels - 1) : \A j \in 1..PerLevel :
              LET copy == view.all_spaces_3d[i * PerLevel + j].polygon
                  first == view.all_spaces_3d[j].polygon
                  shift == view.all_spaces_3d[i * PerLevel + 1].polygon[1][1] - view.all_spaces_3d[1].polygon[1][1]
              IN  /\ Len(copy) = Len(first)
                  /\ \A c \in 1..Len(copy) : copy[c] = <<first[c][1] + shift, first[c][2]>>
                  /\ sidebar.view_style = "Stacked (Compact)" => shift = 0

\* C16 witness: a structure of several levels is rendered exploded, with
\* several spaces a level and the last level moved away from the first.
C16_Witness ==
    /\ view.rendered
    /\ sidebar.view_style = "Exploded (All Levels)"
    /\ sidebar.num_levels > 1
    /\ PerLevel > 1
    /\ view.all_spaces_3d[Len(view.all_spaces_3d)].polygon # view.all_spaces_3d[PerLevel].polygon

\* ---------------------------------------------------------- NetworkSpec
\* The requests of the script and what the page shows of them: the probes of
\* the basemap endpoints (on the first load and on the two test buttons), the
\* address search, and the basemap of the map.  The session has the keys
\* basemap_status, naip_available, map_center and map_zoom, and the keys of
\* the drawing which the map is centred by (polygon_coords, polygon_center,
\* polygon_zoom, show_layout, and current_layout_type, "none" while the
\* session has no such key); no polygon is drawn in NetworkSpec.  The
\* sidebar is the Basemap Layer selectbox.  Coordinates are in 1/10000
\* degree; a center is a pair of fractions <<numerator, denominator>>.
Outcomes == {"HTTP 200", "non-200 status", "timeout", "connection error", "other exception"}

NoRequest == "none"

\* The probe that returns True on any HTTP response.
test_endpoint_any_response(outcome) ==
    [raised |-> FALSE, value |-> outcome \in {"HTTP 200", "non-200 status"}]

\* test_endpoint_availability: True if the status is 200; every exception of
\* the request is caught and gives False.
test_endpoint_availability(outcome) ==
    [raised |-> FALSE, value |-> outcome = "HTTP 200"]

\* test_naip_availability: the service request, then the tile request; True
\* if both have status 200 and the tile has more than 1000 bytes
\* ("HTTP 200" for the tile; "small tile" is a 200 with fewer).
test_naip_availability(service, tile) ==
    [raised |-> FALSE, value |-> service = "HTTP 200" /\ tile = "HTTP 200"]

\* The responses to the probes of one test of all basemaps, and to the two
\* requests of the NAIP probe (no tile request after a failed service
\* request): all endpoints alike, or one endpoint unlike the others.
BasemapNames == {"Esri World Imagery", "Google Satellite", "Esri Clarity"}

ProbeResponses ==
    {[endpoints |-> e, naip |-> np] :
        e \in {[n \in BasemapNames |-> IF n = other THEN o ELSE "HTTP 200"] : other \in BasemapNames, o \in Outcomes}
                \cup {[n \in BasemapNames |-> "connection error"]},
        np \in {<<"HTTP 200", t>> : t \in Outcomes \cup {"small tile"}}
                \cup {<<sv, NoRequest>> : sv \in Outcomes \ {"HTTP 200"}}}

\* The responses to the search request: with status 200 a list of results,
\* empty or not.
GeocodingResponses ==
    {[outcome |-> "HTTP 200", results |-> r] : r \in {<<>>, << <<407128, 0 - 740060>> >>}}
    \cup {[outcome |-> o, results |-> <<>>] : o \in Outcomes \ {"HTTP 200"}}

NoResponses == [endpoints |-> [n \in BasemapNames |-> NoRequest], naip |-> <<NoRequest, NoRequest>>,
                geocoding |-> [outcome |-> NoRequest, results |-> <<>>]]

\* float(location['lat']), float(location['lon']): the number of the text.
Whole(n) == <<n, 1>>

\* st.session_state after the probes of the first load.
NetworkSession(responses) ==
    [basemap_status |-> [n \in BasemapNames |-> test_endpoint_availability(responses.endpoints[n]).value],
     naip_available |-> test_naip_availability(responses.naip[1], responses.naip[2]).value,
     map_center |-> <<Whole(418781), Whole(0 - 876298)>>,
     map_zoom |-> 18,
     polygon_coords |-> <<>>,
     polygon_center |-> NoCenter,
     polygon_zoom |-> NoneInt,
     show_layout |-> FALSE,
     current_layout_type |-> "none"]

\* The options of the Basemap Layer selectbox; "OpenStreetMap" is appended
\* to the list after the selectbox is built.
BasemapOptions(ss) ==
    {"Esri World Imagery", "Google Satellite", "Esri Clarity (High-Res)"}
        \cup (IF ss.naip_available THEN {"USDA NAIP (via Esri)"} ELSE {})

\* basemap_endpoints[basemap]['url']
BasemapTiles(basemap) ==
    CASE basemap = "Esri World Imagery" -> "https://server.arcgisonline.com/ArcGIS/rest/services/World_Imagery/MapServer/tile/{z}/{y}/{x}"
      [] basemap = "Google Satellite" -> "https://mt1.google.com/vt/lyrs=s&x={x}&y={y}&z={z}"
      [] basemap = "Esri Clarity (High-Res)" -> "https://clarity.maptiles.arcgis.com/arcgis/rest/services/World_Imagery/MapServer/tile/{z}/{y}/{x}"
      [] basemap = "USDA NAIP (via Esri)" -> "https://naip.arcgis.com/arcgis/rest/services/NAIP/ImageServer/tile/{z}/{y}/{x}"
      [] OTHER -> "OpenStreetMap"

\* The address search: the session after it and the message it shows.
Geocode(ss, response) ==
    CASE response.outcome = NoRequest -> [ss |-> ss, message |-> ""]
      [] response.outcome = "HTTP 200" /\ response.results # <<>> ->
            [ss |-> [ss EXCEPT !.map_center = <<Whole(response.results[1][1]), Whole(response.results[1][2])>>,
                                  !.map_zoom = 18],
             message |-> "Found"]
      [] response.outcome = "HTTP 200" /\ response.results = <<>> ->
            [ss |-> ss, message |-> "Address not found. Please try a different search term."]
      [] response.outcome = "non-200 status" -> [ss |-> ss, message |-> "Search failed with status code"]
      [] response.outcome = "timeout" -> [ss |-> ss, message |-> "Search timed out. Please try again."]
      [] response.outcome = "connection error" -> [ss |-> ss, message |-> "Connection error. Please check your network."]
      [] OTHER -> [ss |-> ss, message |-> "Search error"]

\* A center selection that follows the address search.
MapViewOfSearch(ss) == [location |-> ss.map_center, zoom_start |-> ss.map_zoom]

\* The center and zoom of the map of a pass: polygon_center and polygon_zoom
\* if polygon_center is set (with a layout shown or not), map_center and
\* map_zoom otherwise; the fallback map takes polygon_center or map_center
\* and polygon_zoom or map_zoom, which are the same values.
MapView(ss) ==
    IF ss.polygon_center # NoCenter
    THEN [location |-> ss.polygon_center, zoom_start |-> ss.polygon_zoom]
    ELSE [location |-> ss.map_center, zoom_start |-> ss.map_zoom]

\* The map of a pass: folium.Map with the tiles of the selected basemap, or
\* with OpenStreetMap if its construction raises.
RenderedPage(ss, basemap, message, responses, map_raises) ==
    [tiles |-> IF map_raises THEN "OpenStreetMap" ELSE BasemapTiles(basemap),
     location |-> MapView(ss).location,
     zoom_start |-> MapView(ss).zoom_start,
     search_message |-> message,
     responses |-> responses]

\* The selectbox keeps its value while the value is an option, and falls
\* back to its first option otherwise.
Selected(ss, sb) == IF sb.basemap \in BasemapOptions(ss) THEN sb.basemap ELSE "Esri World Imagery"

NetworkInit ==
    \E responses \in ProbeResponses, map_raises \in BOOLEAN :
        /\ session_state = NetworkSession(responses)
        /\ sidebar = [basemap |-> "Esri World Imagery"]
        /\ scan = Idle
        /\ pass_raised = \E n \in BasemapNames : test_endpoint_availability(responses.endpoints[n]).raised
        /\ view = NoView
        /\ page = RenderedPage(session_state, sidebar.basemap, "", [NoResponses EXCEPT !.endpoints = responses.endpoints, !.naip = responses.naip], map_raises)

\* One pass of the script with the requests it makes: the session after it
\* and the page it renders.
NetworkPass(ss, basemap, message, responses, raised) ==
    \E map_raises \in BOOLEAN :
        /\ session_state' = ss
        /\ sidebar' = [basemap |-> basemap]
        /\ pass_raised' = raised
        /\ page' = RenderedPage(ss, basemap, message, responses, map_raises)
        /\ UNCHANGED <<scan, view>>

\* The user selects another basemap.
SelectBasemap ==
    \E basemap \in BasemapOptions(session_state) \ {sidebar.basemap} :
        NetworkPass(session_state, basemap, "", NoResponses, FALSE)

\* "Test NAIP Connection", shown while NAIP is not available.
TestNAIPConnection ==
    /\ ~session_state.naip_available
    /\ \E naip \in {r.naip : r \in ProbeResponses} :
        \E probe \in {test_naip_availability(naip[1], naip[2])} :
            NetworkPass([session_state EXCEPT !.naip_available = probe.value], Selected(session_state, sidebar), "",
                        [NoResponses EXCEPT !.naip = naip], probe.raised)

\* "Test All Basemaps": basemap_status and naip_available are probed again.
TestAllBasemaps ==
    /\ DOMAIN session_state.basemap_status = BasemapNames
    /\ \E responses \in ProbeResponses :
        \E probes \in {[n \in BasemapNames |-> test_endpoint_availability(responses.endpoints[n])]},
           naip \in {test_naip_availability(responses.naip[1], responses.naip[2])} :
            NetworkPass([session_state EXCEPT !.basemap_status = [n \in BasemapNames |-> probes[n].value],
                                              !.naip_available = naip.value],
                        Selected(session_state, sidebar), "",
                        [NoResponses EXCEPT !.endpoints = responses.endpoints, !.naip = responses.naip],
                        naip.raised \/ \E n \in BasemapNames : probes[n].raised)

\* "Search" with an address.
Search ==
    \E response \in GeocodingResponses :
        \E found \in {Geocode(session_state, response)} :
            NetworkPass(found.ss, Selected(session_state, sidebar), found.message,
                        [NoResponses EXCEPT !.geocoding = response], FALSE)

NetworkNext ==
    \/ SelectBasemap
    \/ TestNAIPConnection
    \/ TestAllBasemaps
    \/ Search

NetworkSpec == NetworkInit /\ [][NetworkNext]_vars

\* ------------------------------------------------ claims of the network
Probed == \A n \in BasemapNames : page.responses.endpoints[n] # NoRequest

Searched == page.responses.geocoding.outcome # NoRequest

\* C18: no network outcome propagates as an exception: for every outcome,
\* the probes return a boolean that is True only on success (status 200; for
\* NAIP a service and a tile of status 200), the address search shows a
\* message, and it leaves map_center and map_zoom as they were unless the
\* status is 200 and the result list is not empty, when map_center is the
\* first result and map_zoom is 18.
C18_NetworkOutcomesHandled ==
    /\ [](/\ ~pass_raised
          /\ Probed => \A n \in BasemapNames :
                session_state.basemap_status[n] = (page.responses.endpoints[n] = "HTTP 200")
          /\ page.responses.naip[1] # NoRequest =>
                session_state.naip_available = (page.responses.naip = <<"HTTP 200", "HTTP 200">>)
          /\ Searched => page.search_message # "")
    /\ [][page'.responses.geocoding.outcome # NoRequest =>
            IF page'.responses.geocoding.outcome = "HTTP 200" /\ page'.responses.geocoding.results # <<>>
            THEN /\ session_state'.map_center = <<Whole(page'.responses.geocoding.results[1][1]),
                                                 Whole(page'.responses.geocoding.results[1][2])>>
                 /\ session_state'.map_zoom = 18
            ELSE /\ session_state'.map_center = session_state.map_center
                 /\ session_state'.map_zoom = session_state.map_zoom]_vars

\* C18 witness: a search has ended in an exception that is neither a timeout
\* nor a connection error, with its message on the page and the map still
\* at the place an earlier search found, while a probe has failed.
C18_Witness ==
    /\ page.responses.geocoding.outcome = "other exception"
    /\ page.search_message = "Search error"
    /\ session_state.map_center = <<Whole(407128), Whole(0 - 740060)>>
    /\ page.location = session_state.map_center
    /\ \E n \in BasemapNames : ~session_state.basemap_status[n]
    /\ ~pass_raised

\* C19: when the probe of the selected basemap has failed (its
\* basemap_status entry is False), the map of the pass is rendered with the
\* OpenStreetMap basemap instead of the failing tile source.
C19_FallbackOnFailedProbe ==
    \A n \in BasemapNames :
        (sidebar.basemap = n /\ ~session_state.basemap_status[n]) => page.tiles = "OpenStreetMap"

\* ---------------------------------------------------------- ExampleSpec
\* The packing pass on the lot of the worked example: an axis-aligned lot of
\* 50 m by 30 m, spaces of 2.5 m by 5.0 m (the widgets' defaults), an aisle
\* of 6.0 m, under the row-based, the column-based and the automatic
\* orientation (the lot is wider than 1.2 times its height: rows).
ExampleLot == RectLot(40, 80, 50 * 4, 30 * 4)

ExampleSetting == <<20, M(5), M(6)>>

ExampleInit ==
    \E layout_orientation \in {"Row-Based (Horizontal)", "Column-Based (Vertical)", "Auto (Best Fit)"}, conservative \in BOOLEAN :
    \E parking_type \in {"Standard Perpendicular (90 deg)"}, estimator \in SessionEstimatorSettings :
        /\ sidebar = Sidebar(parking_type, ExampleSetting, layout_orientation, The(CornerSettings(layout_orientation)), estimator, SurfaceLot)
        /\ session_state = LayoutSession(ExampleLot, ExampleSetting, parking_type, EstimatedSpaces(ExampleLot, sidebar), conservative)
        /\ scan = PackStart(PassInputs(session_state, sidebar))
        /\ pass_raised = FALSE
        /\ view = NoView
        /\ page = NoPage

ExampleNext ==
    \/ StartScan
    \/ RowScan
    \/ ColumnScan
    \/ StoreLayout

ExampleSpec == ExampleInit /\ [][ExampleNext]_vars

\* The bottom edges of the bands that hold spaces of the list.
BandBottoms == {Box(Spaces[i]).bottom : i \in 1..Len(Spaces)}

\* The number of spaces of the list in the band with its bottom edge at y.
InBand(y) == Cardinality({i \in 1..Len(Spaces) : Box(Spaces[i]).bottom = y})

\* C21: on the lot of 50 m by 30 m with spaces of 2.5 m by 5.0 m and an aisle
\* of 6.0 m, the optimized row-based packing places exactly 20 spaces in each
\* row band and exactly 2 further row bands after the first: 3 non-empty
\* bands and 60 spaces.
C21_ExampleCount ==
    (Returned /\ sidebar.layout_orientation = "Row-Based (Horizontal)" /\ ~session_state.show_conservative) =>
        /\ \A y \in BandBottoms : InBand(y) = 20
        /\ Cardinality(BandBottoms) = 3
        /\ Len(Spaces) = 60

\* ------------------------------------- claims of the packing: the axes
\* The footprint of a space in metres (1/8 m), as a box measured from the
\* lower-left corner of the bounding box: degrees of longitude times
\* lon_to_m, degrees of latitude times lat_to_m.
MetricBox(ring, bounds) ==
    [left |-> (Box(ring).left - bounds[1]) * LonToM(bounds),
     right |-> (Box(ring).right - bounds[1]) * LonToM(bounds),
     bottom |-> (Box(ring).bottom - bounds[2]) * lat_to_m,
     top |-> (Box(ring).top - bounds[2]) * lat_to_m]

MetricBoxes(spaces, bounds) == {MetricBox(spaces[i], bounds) : i \in 1..Len(spaces)}

TransposeBox(b) == [left |-> b.bottom, right |-> b.top, bottom |-> b.left, top |-> b.right]

\* The polygon with its axes swapped on the ground: the vertex x metres east
\* and y metres north of the lower-left corner of the bounding box goes
\* y metres east and x metres north of it.
Transposed(polygon) ==
    LET b == Bounds(polygon)
    IN  [i \in 1..Len(polygon) |->
            <<b[1] + ((polygon[i][2] - b[2]) * lat_to_m) \div LonToM(b),
              b[2] + ((polygon[i][1] - b[1]) * LonToM(b)) \div lat_to_m>>]

\* The row-based pass on the transposed polygon of the pass, with the
\* dimensions, the parking type and the cap of the pass.
RowsOfTransposed ==
    The({RunPacking(in) :
            in \in {PackInputs([session_state.layout_params EXCEPT !.polygon = Transposed(In.polygon)],
                               In.target_space_count, "Row-Based (Horizontal)", In.corner_island_size, In.center_aisle_count)}})

\* C22: column-based layout is row-based layout with the axes swapped: the
\* footprints in metres of the column-based packing of a polygon are the
\* transposes of the footprints of the row-based packing of the transposed
\* polygon, also where the metres per degree of longitude and of latitude
\* differ.
C22_ColumnsAreTransposedRows ==
    (Returned /\ Perpendicular /\ sidebar.layout_orientation = "Column-Based (Vertical)") =>
        \E rows \in {RowsOfTransposed} :
            /\ rows.pc = "done"
            /\ LonToM(Bounds(Transposed(In.polygon))) = LonToM(In.bounds)
            /\ MetricBoxes(Spaces, In.bounds)
                  = {TransposeBox(r) : r \in MetricBoxes(rows.parking_spaces, Bounds(Transposed(In.polygon)))}

\* C24: in every strategy each dimension is converted to degrees with the
\* factor of the axis it is laid out along, so every space produced measures
\* space_width by space_length metres, upright or lying: in the row and
\* column bands, the perimeter strips, the center rows and the parallel
\* edges (the parallelograms of the angled layout apart).
C24_AxisFactors ==
    (Returned /\ ~Angled(In)) =>
        \A i \in 1..Len(Spaces) :
            LET m == MetricBox(Spaces[i], In.bounds)
            IN  <<m.right - m.left, m.top - m.bottom>> \in {<<In.space_w, In.space_l>>, <<In.space_l, In.space_w>>}


\* --------------------------------- claims of the packing: the strategies
\* The strategy the options of a pass select, from the sidebar's orientation
\* and the parking type and bounding box of the snapshot.
SelectedStrategy ==
    LET b == Bounds(session_state.layout_params.polygon)
        p_type == session_state.layout_params.parking_type
    IN  IF sidebar.layout_orientation = "Perimeter + Center (High Efficiency)" THEN "perimeter + center"
        ELSE IF p_type \in {"Standard Perpendicular (90 deg)", "Compact", "Angled (45 deg)"}
             THEN IF \/ sidebar.layout_orientation = "Column-Based (Vertical)"
                     \/ /\ sidebar.layout_orientation = "Auto (Best Fit)"
                        /\ b[4] - b[2] > 0
                        /\ 5 * (b[3] - b[1]) < 4 * (b[4] - b[2])
                  THEN "columns"
                  ELSE "rows"
             ELSE "parallel"

\* The loops of a strategy, as positions of the scan.
StrategyLoops(strategy) ==
    CASE strategy = "perimeter + center" -> {"top", "bottom", "left", "right", "center_top", "center_bottom"}
      [] strategy = "rows" -> {"rows", "rows_in"}
      [] strategy = "columns" -> {"cols", "cols_in"}
      [] OTHER -> {"par_h", "par_v"}

\* C25: the strategies are mutually exclusive per pass: use_rows and
\* use_columns are never both true and neither is true with
\* use_perimeter_center; the pass runs the loops of one strategy only, so
\* that one strategy contributes its spaces: perimeter + center when that
\* orientation is selected, whatever the parking type; otherwise rows or
\* columns for the perpendicular, compact and angled types (Auto takes
\* columns only when the aspect ratio is below 0.8); otherwise the parallel
\* edge layout.
C25_OneStrategy ==
    /\ Cardinality({f \in {"use_rows", "use_columns", "use_perimeter_center"} : InFlags(In)[f]}) = 1
    /\ InFlags(In).use_perimeter_center = (SelectedStrategy = "perimeter + center")
    /\ SelectedStrategy \in {"rows", "columns"} => InFlags(In).use_columns = (SelectedStrategy = "columns")
    /\ scan.pc \in {"start", "done", "stored", "raised", "aborted"} \cup StrategyLoops(SelectedStrategy)
    /\ scan.pc = "start" => Spaces = <<>>

\* C25 witness: under perimeter + center a pass with the parallel parking
\* type has returned spaces, all of them spaces of the perimeter strips.
C25_Witness ==
    /\ Returned /\ Len(Spaces) > 0
    /\ sidebar.layout_orientation = "Perimeter + Center (High Efficiency)"
    /\ In.p_type = "Parallel"
    /\ \A i \in 1..Len(Spaces) : InRowStrip(Spaces[i]) \/ InColumnStrip(Spaces[i])


\* ------------------------------------- claims of the session: the frame
\* The keys of the session a pass of Clear Layout is to leave alone.
KeptByClear == {"polygon_coords", "polygon_center", "polygon_zoom", "calculation_results", "optimized_spaces",
                "conservative_spaces", "parking_spaces_3d", "has_parking_spaces_3d"}

\* The estimate in the session is the one the polygon capture computes from
\* polygon_coords under the sidebar of the pass.
EstimateIsCurrent ==
    session_state.calculation_results
        = PolygonCapture(session_state, sidebar, session_state.polygon_coords).calculation_results

\* C26: Clear Layout sets show_layout = False, show_conservative = False,
\* actual_spaces_drawn = None and layout_params = None, and leaves
\* polygon_coords, polygon_center, calculation_results, optimized_spaces,
\* conservative_spaces and parking_spaces_3d as they were; and layout_params
\* is changed by no action other than the three layout buttons: not by the
\* pass of a drawing, whatever is drawn, and not by the pass of a sidebar
\* change.  (The map component returns a drawing in the pass of a click only
\* if it returned it in the pass before, when the capture of that pass made
\* the estimate current; the other keys are left alone whatever it returns.)
C26_ClearLayoutFrame ==
    /\ [](ClearShown =>
            \A drawing \in Drawings(session_state) :
            \A after \in {ClickOutcome(session_state, sidebar, "clear", drawing).ss} :
                /\ ~after.show_layout
                /\ ~after.show_conservative
                /\ after.actual_spaces_drawn = NoneInt
                /\ after.layout_params = NoParams
                /\ \A k \in KeptByClear \ {"calculation_results"} : after[k] = session_state[k]
                /\ (drawing = <<>> \/ EstimateIsCurrent) => after.calculation_results = session_state.calculation_results)
    /\ [](scan.pc # "raised" =>
            \A polygon \in SessionLots : \A drawn \in {PassEnd(session_state, sidebar, polygon).ss} :
                drawn.layout_params = session_state.layout_params)
    /\ [][sidebar' # sidebar => session_state'.layout_params = session_state.layout_params]_vars

\* C26 witness: the layout has been cleared after an optimized layout was
\* drawn: the polygon, its center, the estimate, the count and the spaces of
\* the layout are still in the session.
C26_Witness ==
    /\ ~session_state.show_layout
    /\ EstimateIsCurrent
    /\ session_state.layout_params = NoParams
    /\ session_state.actual_spaces_drawn = NoneInt
    /\ session_state.polygon_coords # <<>>
    /\ session_state.polygon_center = PolygonCenter(session_state.polygon_coords)
    /\ session_state.calculation_results # NoResults
    /\ session_state.optimized_spaces > 0
    /\ Len(session_state.parking_spaces_3d) > 0

\* ---------------------------------------------------------------------------
\* claims of the session: the layout flags
\* ---------------------------------------------------------------------------

\* C27: in every reachable session state show_layout implies that
\* layout_params is set and a polygon has been drawn; show_conservative
\* implies show_layout and a layout_params with target_spaces; and while
\* polygon_coords is unset the pass of a click on a layout button ends in the
\* session which the same pass ends in without the click.
C27_LayoutFlags ==
    /\ session_state.show_layout =>
            /\ session_state.layout_params # NoParams
            /\ session_state.polygon_coords # <<>>
    /\ session_state.show_conservative =>
            /\ session_state.show_layout
            /\ "target_spaces" \in DOMAIN session_state.layout_params
    /\ session_state.polygon_coords = <<>> =>
            \A button \in {"optimized", "conservative"}, drawing \in Drawings(session_state) :
                ClickOutcome(session_state, sidebar, button, drawing).ss
                    = PassEnd(session_state, sidebar, drawing).ss

\* C27 witness: a conservative layout has been drawn and an optimized one
\* requested after it.
C27_Witness ==
    /\ session_state.show_layout
    /\ ~session_state.show_conservative
    /\ session_state.conservative_spaces # NoneInt
    /\ session_state.layout_params # NoParams
    /\ session_state.polygon_coords # <<>>

\* ---------------------------------------------------------------------------
\* claims of the packing: conservative against optimized
\* ---------------------------------------------------------------------------

\* The pass of the optimized layout for the snapshot and sidebar of the
\* pass: the same inputs without the cap.
OptimizedInputs == [In EXCEPT !.target_space_count = NoLimit]

\* C28: for the same polygon, dimensions, parking type and layout
\* orientation, a conservative pass that returns accepts only spaces which
\* the optimized pass accepts too, and the optimized pass returns as well;
\* so conservative_spaces <= optimized_spaces and the difference displayed,
\* (optimized_spaces - conservative_spaces) * num_levels, is not negative.
C28_ConservativeWithinOptimized ==
    (Returned /\ session_state.show_conservative) =>
        \A optimized \in {RunPacking(OptimizedInputs)} :
            /\ optimized.pc = "done"
            /\ SpaceSet(scan) \subseteq SpaceSet(optimized)
            /\ Len(scan.parking_spaces) <= Len(optimized.parking_spaces)
            /\ \A num_levels \in 1..MaxLevels :
                    Len(optimized.parking_spaces) * num_levels - Len(scan.parking_spaces) * num_levels >= 0

\* C28 witness: a conservative pass has returned spaces, and fewer of them
\* than the optimized pass of the same inputs.
C28_Witness ==
    /\ Returned
    /\ session_state.show_conservative
    /\ Len(scan.parking_spaces) > 0
    /\ Len(scan.parking_spaces) < Len(RunPacking(OptimizedInputs).parking_spaces)

\* ---------------------------------------------------------------------------
\* claims of the 3D view: the set it replicates
\* ---------------------------------------------------------------------------

\* The spaces of the first level of the view, moved back by the horizontal
\* offset of that level.
FirstLevelOfView ==
    LET b == Bounds(session_state.layout_params.polygon)
        offset == HorizontalOffsetLon(sidebar.view_style, 0, sidebar.num_levels, Max2(b[4] - b[2], b[3] - b[1]))
    IN  [j \in 1..PerLevel |->
            [c \in 1..Len(view.all_spaces_3d[j].polygon) |->
                <<view.all_spaces_3d[j].polygon[c][1] - offset, view.all_spaces_3d[j].polygon[c][2]>>]]

\* C29: on every pass that renders the 3D view and whose packing returns,
\* the single-level set the view replicates is the list of spaces which the
\* packing of that same pass returns, not a list stored by an earlier pass.
C29_ViewOfCurrentPass ==
    (view.rendered /\ scan.pc = "done") => FirstLevelOfView = scan.parking_spaces

\* -------------------------------------------------------------- MapSpec
\* The center of the map over a session in which polygons are drawn,
\* addresses are searched and layouts are requested and cleared.  The map of
\* a pass is built after the address search and before the polygon capture
\* of the pass.  All probes of the first load have succeeded.
AvailableResponses ==
    [endpoints |-> [n \in BasemapNames |-> "HTTP 200"], naip |-> <<"HTTP 200", "HTTP 200">>]

\* The lots drawn on the map: 4 by 2 and 3 by 3 ten-thousandths of a degree.
MapLots == {RectLot(0 - 876300, 418780, 4, 2), RectLot(0 - 740062, 407127, 3, 3)}

\* The polygon capture of a pass, as far as the map goes.
CenterCapture(ss, drawing) ==
    IF drawing = <<>>
    THEN ss
    ELSE [ss EXCEPT !.polygon_coords = drawing, !.polygon_center = PolygonCenter(drawing), !.polygon_zoom = 19]

MapInit ==
    \E map_raises \in BOOLEAN :
        /\ session_state = NetworkSession(AvailableResponses)
        /\ sidebar = [basemap |-> "Esri World Imagery"]
        /\ scan = Idle
        /\ pass_raised = FALSE
        /\ view = NoView
        /\ page = RenderedPage(session_state, sidebar.basemap, "",
                               [NoResponses EXCEPT !.endpoints = AvailableResponses.endpoints, !.naip = AvailableResponses.naip],
                               map_raises)

\* What the layout block of a pass leaves in the session, the layout being
\* of the given type if one is shown.
LayoutDrawn(ss, layout_type) ==
    IF ss.show_layout THEN [ss EXCEPT !.current_layout_type = layout_type] ELSE ss

\* One pass: the map of session ss, the layout block, then the capture of
\* what the map component returns.
MapPass(ss, drawing, message, responses) ==
    \E map_raises \in BOOLEAN :
        /\ session_state' = CenterCapture(LayoutDrawn(ss, ss.current_layout_type), drawing)
        /\ page' = RenderedPage(ss, sidebar.basemap, message, responses, map_raises)
        /\ UNCHANGED <<sidebar, scan, pass_raised, view>>

\* "Search" with an address, on a map with or without a drawing.
MapSearch ==
    \E response \in GeocodingResponses, drawing \in Drawings(session_state) :
        \E found \in {Geocode(session_state, response)} :
            MapPass(found.ss, drawing, found.message, [NoResponses EXCEPT !.geocoding = response])

\* The user draws a polygon on the map of the last pass.
DrawOnMap ==
    /\ ~pass_raised
    /\ \E polygon \in MapLots : MapPass(session_state, polygon, "", NoResponses)

\* A click on Optimized Layout or Conservative Layout: its pass, the
\* handler, and the pass st.rerun() starts.
ClickLayoutButton ==
    /\ session_state.polygon_coords # <<>>
    /\ \E drawing \in Drawings(session_state), layout_type \in {"optimized", "conservative"} :
        \E first \in {CenterCapture(session_state, drawing)} :
            MapPass([first EXCEPT !.show_layout = TRUE, !.current_layout_type = layout_type], drawing, "", NoResponses)

\* A click on Clear Layout, which is on the page while a layout is shown.
ClickClearButton ==
    /\ session_state.polygon_coords # <<>>
    /\ session_state.show_layout
    /\ \E drawing \in Drawings(session_state) :
        \E first \in {CenterCapture(session_state, drawing)} :
            MapPass([first EXCEPT !.show_layout = FALSE], drawing, "", NoResponses)

MapNext ==
    \/ MapSearch
    \/ DrawOnMap
    \/ ClickLayoutButton
    \/ ClickClearButton

MapSpec == MapInit /\ [][MapNext]_vars

\* ---------------------------------------------------------------------------
\* claims of the map: its center
\* ---------------------------------------------------------------------------

\* C30: once polygon_center is set, every later pass builds its map at
\* polygon_center with polygon_zoom (19), with a layout shown or not; and a
\* successful address search of such a pass sets map_center to the place
\* found and map_zoom to 18 while the map stays at polygon_center.
C30_CenterOnPolygon ==
    /\ [][session_state.polygon_center # NoCenter =>
            /\ page'.location = session_state.polygon_center
            /\ page'.zoom_start = session_state.polygon_zoom
            /\ page'.zoom_start = 19]_vars
    /\ [][(/\ session_state.polygon_center # NoCenter
           /\ page'.responses.geocoding.outcome = "HTTP 200"
           /\ page'.responses.geocoding.results # <<>>) =>
            /\ session_state'.map_center = <<Whole(page'.responses.geocoding.results[1][1]),
                                            Whole(page'.responses.geocoding.results[1][2])>>
            /\ session_state'.map_zoom = 18
            /\ page'.location = session_state.polygon_center
            /\ page'.location = MapView(session_state).location]_vars

\* C30 witness: a polygon has been drawn in Chicago, a later search has found
\* New York, and the page of the search has its map at the center of the
\* polygon, with no layout shown.
C30_Witness ==
    /\ session_state.polygon_center = <<<<2093904, 5>>, <<0 - 4381492, 5>>>>
    /\ session_state.map_center = <<Whole(407128), Whole(0 - 740060)>>
    /\ page.responses.geocoding.outcome = "HTTP 200"
    /\ page.location = session_state.polygon_center
    /\ page.zoom_start = 19
    /\ ~session_state.show_layout

\* ------------------------------------------------------ float arithmetic
\* The numbers of the unit conversion are Python floats: binary floating
\* point with a significand of 53 bits, results rounded to nearest, ties to
\* even.  A float is a record [m, e] of value m * 2^e whose significand m has
\* exactly 53 bits; m is a natural number written as a sequence of limbs,
\* lowest first, in base 2^15.  Only positive numbers occur.
Base == 2^15

RECURSIVE SmallBits(_)
SmallBits(n) == IF n = 0 THEN 0 ELSE 1 + SmallBits(n \div 2)

LimbBits == SmallBits(Base) - 1

Precision == 53

Limb(a, i) == IF i <= Len(a) THEN a[i] ELSE 0

RECURSIVE IntLimbs(_)
IntLimbs(n) == IF n = 0 THEN <<>> ELSE <<n % Base>> \o IntLimbs(n \div Base)

RECURSIVE TopLimb(_, _)
TopLimb(a, i) == IF i = 0 THEN 0 ELSE IF a[i] # 0 THEN i ELSE TopLimb(a, i - 1)

Trim(a) == SubSeq(a, 1, TopLimb(a, Len(a)))

RECURSIVE AddFrom(_, _, _, _)
AddFrom(a, b, i, carry) ==
    IF i > Len(a) /\ i > Len(b)
    THEN IF carry = 0 THEN <<>> ELSE <<carry>>
    ELSE LET t == Limb(a, i) + Limb(b, i) + carry
         IN  <<t % Base>> \o AddFrom(a, b, i + 1, t \div Base)

BigAdd(a, b) == AddFrom(a, b, 1, 0)

\* a - b for a >= b.
RECURSIVE SubFrom(_, _, _, _)
SubFrom(a, b, i, borrow) ==
    IF i > Len(a)
    THEN <<>>
    ELSE LET t == a[i] - Limb(b, i) - borrow
         IN  <<IF t < 0 THEN t + Base ELSE t>> \o SubFrom(a, b, i + 1, IF t < 0 THEN 1 ELSE 0)

BigSub(a, b) == SubFrom(a, b, 1, 0)

\* a * d for one limb d.
RECURSIVE ScaleFrom(_, _, _, _)
ScaleFrom(a, d, i, carry) ==
    IF i > Len(a)
    THEN IF carry = 0 THEN <<>> ELSE <<carry>>
    ELSE LET t == a[i] * d + carry
         IN  <<t % Base>> \o ScaleFrom(a, d, i + 1, t \div Base)

BigScale(a, d) == ScaleFrom(a, d, 1, 0)

RECURSIVE MulFrom(_, _, _)
MulFrom(a, b, j) ==
    IF j > Len(b) THEN <<>> ELSE BigAdd(BigScale(a, b[j]), <<0>> \o MulFrom(a, b, j + 1))

BigMul(a, b) == MulFrom(a, b, 1)

RECURSIVE GeqFrom(_, _, _)
GeqFrom(a, b, i) ==
    IF i = 0 THEN TRUE
    ELSE IF Limb(a, i) # Limb(b, i) THEN Limb(a, i) > Limb(b, i) ELSE GeqFrom(a, b, i - 1)

BigGeq(a, b) == GeqFrom(a, b, Max2(Len(a), Len(b)))

BigIsZero(a) == \A i \in 1..Len(a) : a[i] = 0

BitLength(a) ==
    LET top == TopLimb(a, Len(a))
    IN  IF top = 0 THEN 0 ELSE LimbBits * (top - 1) + SmallBits(a[top])

\* Bit k of a, bit 0 being the lowest.
Bit(a, k) == (Limb(a, k \div LimbBits + 1) \div 2^(k % LimbBits)) % 2

\* a * 2^s.
ShiftLeft(a, s) == [i \in 1..(s \div LimbBits) |-> 0] \o BigScale(a, 2^(s % LimbBits))

\* floor(a / 2^s).
ShiftRight(a, s) ==
    LET q == s \div LimbBits
        r == s % LimbBits
    IN  Trim([i \in 1..Max2(0, Len(a) - q) |->
                Limb(a, i + q) \div 2^r + (Limb(a, i + q + 1) % 2^r) * 2^(LimbBits - r)])

\* One step of the long division: the remainder takes bit k of num, and d
\* is taken off it if it fits.
DivStep(num, d, k, acc) ==
    LET shifted == BigAdd(BigScale(acc.r, 2), IF Bit(num, k) = 1 THEN <<1>> ELSE <<>>)
        fits == BigGeq(shifted, d)
    IN  [q |-> BigAdd(BigScale(acc.q, 2), IF fits THEN <<1>> ELSE <<>>),
         r |-> IF fits THEN Trim(BigSub(shifted, d)) ELSE Trim(shifted)]

\* The long division over count bits of num, from bit k down.
RECURSIVE DivBits(_, _, _, _, _)
DivBits(num, d, k, count, acc) ==
    IF count = 0
    THEN acc
    ELSE The({DivBits(num, d, k - 1, count - 1, step) : step \in {DivStep(num, d, k, acc)}})

\* floor(num / d) and the remainder, from bit k of num down, one limb of
\* bits after the other.
RECURSIVE DivFrom(_, _, _, _)
DivFrom(num, d, k, acc) ==
    IF k < 0
    THEN acc
    ELSE LET count == Min2(k + 1, LimbBits)
         IN  The({DivFrom(num, d, k - count, part) : part \in {DivBits(num, d, k, count, acc)}})

BigDivMod(num, d) ==
    The({DivFrom(n, d, BitLength(n) - 1, [q |-> <<>>, r |-> <<>>]) : n \in {num}})

\* n * 2^e rounded to a significand of p bits, to nearest, ties to even.
RoundTo(n, e, p) ==
    LET s == BitLength(n) - p
    IN  IF s <= 0
        THEN [m |-> Trim(ShiftLeft(n, 0 - s)), e |-> e + s]
        ELSE LET q == ShiftRight(n, s)
                 up == /\ Bit(n, s - 1) = 1
                       /\ Bit(n, s) = 1 \/ \E j \in 0..(s - 2) : Bit(n, j) = 1
                 r == IF up THEN Trim(BigAdd(q, <<1>>)) ELSE q
             IN  IF BitLength(r) > p
                 THEN [m |-> ShiftRight(r, 1), e |-> e + s + 1]
                 ELSE [m |-> r, e |-> e + s]

\* A rounding to the 24 bits of single precision.
RoundToSingle(n, e) == RoundTo(n, e, 24)

RoundToNearestEven(n, e) == RoundTo(n, e, Precision)

\* float(n) for a positive integer n.
Float(n) == RoundToNearestEven(IntLimbs(n), 0)

\* x * y
FloatMul(x, y) == RoundToNearestEven(BigMul(x.m, y.m), x.e + y.e)

\* x / y: the quotient of the significands to 2 bits more than the
\* precision, with one more bit that is set if the division left a remainder.
FloatDiv(x, y) ==
    LET extra == Precision + 2
        qr == BigDivMod(ShiftLeft(x.m, extra), y.m)
        n == BigAdd(BigScale(qr.q, 2), IF BigIsZero(qr.r) THEN <<>> ELSE <<1>>)
    IN  RoundToNearestEven(n, x.e - y.e - extra - 1)

\* The float written as the decimal n / 10^d: the float nearest to it.
Decimal(n, d) == FloatDiv(Float(n), Float(10^d))

\* abs(x - y) <= n / 10^d
Within(x, y, n, d) ==
    LET low == Min2(x.e, y.e)
        a == ShiftLeft(x.m, x.e - low)
        b == ShiftLeft(y.m, y.e - low)
        diff == IF BigGeq(a, b) THEN BigSub(a, b) ELSE BigSub(b, a)
    IN  IF low >= 0
        THEN BigIsZero(diff)
        ELSE BigGeq(BigScale(ShiftLeft(<<1>>, 0 - low), n), BigMul(diff, IntLimbs(10^d)))

\* -------------------------------------------------------------- UnitSpec
\* The unit conversion of a value: the sidebar turns what an Imperial widget
\* holds into meters by dividing by the conversion factor, the results panel
\* shows a value in meters multiplied by the factor, and dividing what is
\* shown by the factor leads back to meters.  The page holds the stage and
\* the numbers of the value.
length_conversion == Decimal(328084, 5)

area_conversion == Decimal(10764, 3)

Conversion(quantity) == IF quantity = "length" THEN length_conversion ELSE area_conversion

\* The ranges of the widgets: lengths in tenths of a foot and of a meter,
\* the area per space in square feet and in square meters.
MinFeetTenths == 65

MaxFeetTenths == 262

MinMeterTenths == 20

MaxMeterTenths == 80

MinAreaSf == 200

MaxAreaSf == 650

MinAreaSqm == 20

MaxAreaSqm == 60

\* The lots whose area is converted: squares with a side of up to MaxLotSide
\* eighths of a meter.
MaxLotSide == 800

\* poly.area of a square lot of the given side: side * side / 64 m2.
LotArea(side) == [m |-> Float(side * side).m, e |-> Float(side * side).e - 6]

\* What the widgets and the estimator hold: the unit system, the quantity
\* and the number.
UnitInputs ==
    {[unit_system |-> "Imperial", quantity |-> "length", input |-> Decimal(k, 1)] : k \in MinFeetTenths..MaxFeetTenths}
    \cup {[unit_system |-> "Metric", quantity |-> "length", input |-> Decimal(k, 1)] : k \in MinMeterTenths..MaxMeterTenths}
    \cup {[unit_system |-> "Imperial", quantity |-> "area", input |-> Float(n)] : n \in MinAreaSf..MaxAreaSf}
    \cup {[unit_system |-> "Metric", quantity |-> "area", input |-> Float(n)] : n \in MinAreaSqm..MaxAreaSqm}
    \cup {[unit_system |-> "Metric", quantity |-> "lot area", input |-> LotArea(side)] : side \in 1..MaxLotSide}

UnitInit ==
    /\ session_state = EmptySession
    /\ sidebar = [unit_system |-> "Imperial"]
    /\ scan = Idle
    /\ pass_raised = FALSE
    /\ view = NoView
    /\ \E value \in UnitInputs :
        page = [stage |-> "input", unit_system |-> value.unit_system, quantity |-> value.quantity,
                input |-> value.input, meters |-> value.input, shown |-> value.input, back |-> value.input]

\* space_width = space_width_display / length_conversion,
\* area_per_space = area_per_space_display / area_conversion; a Metric widget
\* and poly.area hold meters already.
ToMeters ==
    /\ page.stage = "input"
    /\ \E meters \in {IF page.unit_system = "Imperial"
                      THEN FloatDiv(page.input, Conversion(page.quantity))
                      ELSE page.input} :
        page' = [page EXCEPT !.stage = "meters", !.meters = meters, !.shown = meters, !.back = meters]
    /\ UNCHANGED <<session_state, sidebar, scan, pass_raised, view>>

\* results['space_width'] * length_conversion, results['area_m2'] * area_conversion
ToDisplay ==
    /\ page.stage = "meters"
    /\ \E shown \in {FloatMul(page.meters, Conversion(page.quantity))} :
        page' = [page EXCEPT !.stage = "display", !.shown = shown, !.back = shown]
    /\ UNCHANGED <<session_state, sidebar, scan, pass_raised, view>>

\* The way back: what is shown, divided by the conversion factor.
BackToMeters ==
    /\ page.stage = "display"
    /\ \E back \in {FloatDiv(page.shown, Conversion(page.quantity))} :
        page' = [page EXCEPT !.stage = "back", !.back = back]
    /\ UNCHANGED <<session_state, sidebar, scan, pass_raised, view>>

UnitNext ==
    \/ ToMeters
    \/ ToDisplay
    \/ BackToMeters

UnitSpec == UnitInit /\ [][UnitNext]_vars

\* ---------------------------------------------------------------------------
\* claims of the unit conversion
\* ---------------------------------------------------------------------------

\* C23: a length in meters multiplied by 3.28084 and divided by 3.28084
\* again, and an area in m2 multiplied by 10.764 and divided by 10.764 again,
\* is within 1e-6 of the value it started from: for every length and area
\* per space the widgets hold in either unit system, and for the area of
\* every square lot with a side of up to MaxLotSide / 8 m.
C23_UnitRoundTrip ==
    page.stage = "back" => Within(page.back, page.meters, 1, 6)

\* C23 witness: the way back has ended at a number other than the meters it
\* started from: the 3.2 m of a Metric widget come back as another float.
C23_Witness ==
    /\ page.stage = "back"
    /\ page.quantity = "length"
    /\ page.meters = Decimal(32, 1)
    /\ page.back # page.meters

====
